---- MODULE Spec2Model ----
(***************************************************************************)
(* A model of auction-radar: the normalize / match / rank pipeline         *)
(* (auction_radar/normalize.py, keywords.py, ranker.py), the lots store    *)
(* (db_adapter.py, db.py), the crawl loop (__main__.py) and the fetch      *)
(* helper with its retry decorator (sources/base.py, utils.py).            *)
(*                                                                         *)
(* Python strings are TLA+ strings, handled one character at a time with   *)
(* SubSeq/Len/\o.  The regular expressions of the source are kept as       *)
(* regular expressions: a small syntax tree (Lit, Rep, WB, Alt, Cat,       *)
(* NotAhead) and the operator Ends, which computes every position where a  *)
(* match starting at a given position can end.  Patterns compiled with     *)
(* re.IGNORECASE are written in lower case and run on the lower-cased      *)
(* text.                                                                   *)
(*                                                                         *)
(* Scores are floats in the source; here they are exact integers in        *)
(* millionths (base in hundredths times two factors in hundredths).        *)
(***************************************************************************)
EXTENDS Integers, Sequences, FiniteSets, TLC

-----------------------------------------------------------------------------
(* Characters and Python's str methods                                     *)

LOWER == "abcdefghijklmnopqrstuvwxyz"
UPPER == "ABCDEFGHIJKLMNOPQRSTUVWXYZ"
DIGITS == "0123456789"

Ch(s, i) == SubSeq(s, i, i)

CharsOf(s) == {Ch(s, i) : i \in 1..Len(s)}

LowerChars == CharsOf(LOWER)
UpperChars == CharsOf(UPPER)
DigitChars == CharsOf(DIGITS)
\* \s of Python's re, and the characters str.strip() and str.split() remove
SpaceChars == CharsOf(" \t\n\r\f")
\* \w of Python's re (ASCII part)
WordChars == LowerChars \cup UpperChars \cup DigitChars \cup {"_"}

IndexIn(c, alphabet) == CHOOSE i \in 1..Len(alphabet) : Ch(alphabet, i) = c

ToLower == [c \in UpperChars |-> Ch(LOWER, IndexIn(c, UPPER))]
ToUpper == [c \in LowerChars |-> Ch(UPPER, IndexIn(c, LOWER))]
DigitValue == [c \in DigitChars |-> IndexIn(c, DIGITS) - 1]

lowerCh(c) == IF c \in UpperChars THEN ToLower[c] ELSE c
upperCh(c) == IF c \in LowerChars THEN ToUpper[c] ELSE c

RECURSIVE lower(_)
\* str.lower()
lower(s) == IF s = "" THEN "" ELSE lowerCh(Head(s)) \o lower(Tail(s))

RECURSIVE upper(_)
\* str.upper()
upper(s) == IF s = "" THEN "" ELSE upperCh(Head(s)) \o upper(Tail(s))

RECURSIVE lstrip(_)
lstrip(s) == IF s # "" /\ Head(s) \in SpaceChars THEN lstrip(Tail(s)) ELSE s

RECURSIVE rstrip(_)
rstrip(s) ==
    IF s # "" /\ Ch(s, Len(s)) \in SpaceChars
    THEN rstrip(SubSeq(s, 1, Len(s) - 1)) ELSE s

\* str.strip()
strip(s) == rstrip(lstrip(s))

RECURSIVE titleFrom(_, _)
titleFrom(s, prevCased) ==
    IF s = "" THEN ""
    ELSE LET c == Head(s)
             cased == c \in LowerChars \cup UpperChars
         IN (IF ~cased THEN c ELSE IF prevCased THEN lowerCh(c) ELSE upperCh(c))
            \o titleFrom(Tail(s), cased)

\* str.title(): the first letter of every run of letters in upper case,
\* the other letters in lower case
title(s) == titleFrom(s, FALSE)

RECURSIVE filterChars(_, _)
\* re.sub(r'[^...]', '', s): keep the characters of s that are in keep
filterChars(s, keep) ==
    IF s = "" THEN ""
    ELSE (IF Head(s) \in keep THEN Head(s) ELSE "") \o filterChars(Tail(s), keep)

RECURSIVE collapseSpaces(_)
\* re.sub(r'\s+', ' ', s)
collapseSpaces(s) ==
    IF s = "" THEN ""
    ELSE IF Head(s) \in SpaceChars
         THEN " " \o collapseSpaces(lstrip(s))
         ELSE Head(s) \o collapseSpaces(Tail(s))

\* s.split()[0] for a string with a non-space character
firstWord(s) ==
    LET t == lstrip(s)
        stops == {i \in 1..Len(t) : Ch(t, i) \in SpaceChars}
        stop == IF stops = {} THEN Len(t) + 1
                ELSE CHOOSE i \in stops : \A j \in stops : i <= j
    IN SubSeq(t, 1, stop - 1)

\* str.isdigit()
isdigit(s) == s # "" /\ \A i \in 1..Len(s) : Ch(s, i) \in DigitChars

RECURSIVE strToInt(_)
\* int(s) for a non-empty string of decimal digits
strToInt(s) ==
    IF s = "" THEN 0
    ELSE 10 * strToInt(SubSeq(s, 1, Len(s) - 1)) + DigitValue[Ch(s, Len(s))]

RECURSIVE natToStr(_)
natToStr(n) ==
    IF n < 10 THEN Ch(DIGITS, n + 1)
    ELSE natToStr(n \div 10) \o Ch(DIGITS, (n % 10) + 1)

\* str(n) for an int
intToStr(n) == IF n < 0 THEN "-" \o natToStr(-n) ELSE natToStr(n)

SetMax(S) == CHOOSE x \in S : \A y \in S : y <= x
SetMin(S) == CHOOSE x \in S : \A y \in S : x <= y

-----------------------------------------------------------------------------
(* Regular expressions (Python's re, the constructs the source uses)       *)

Lit(s) == [k |-> "lit", s |-> s]
\* a character class repeated lo..hi times; hi = -1 is "no upper limit"
Rep(cs, lo, hi) == [k |-> "rep", cs |-> cs, neg |-> FALSE, lo |-> lo, hi |-> hi]
\* .* : any characters but a newline
DotStar == [k |-> "rep", cs |-> {"\n"}, neg |-> TRUE, lo |-> 0, hi |-> -1]
\* \s* and \s+
SpStar == Rep(SpaceChars, 0, -1)
SpPlus == Rep(SpaceChars, 1, -1)
\* \d+
DigPlus == Rep(DigitChars, 1, -1)
\* a pattern without its \b: the empty pattern in its place
WB_none == [k |-> "cat", rs |-> <<>>]
\* \b
WB == [k |-> "wb"]
\* (?:a|b|...)
Alt(rs) == [k |-> "alt", rs |-> rs]
\* concatenation
Cat(rs) == [k |-> "cat", rs |-> rs]
\* (?!r)
NotAhead(r) == [k |-> "not", r |-> r]

IsWordAt(s, i) == i >= 1 /\ i <= Len(s) /\ Ch(s, i) \in WordChars

\* \b holds between the characters i-1 and i
IsBoundary(s, i) == IsWordAt(s, i - 1) # IsWordAt(s, i)

RECURSIVE RunLen(_, _, _, _)
\* the length of the longest run of class characters that starts at i
RunLen(s, i, cs, neg) ==
    IF i <= Len(s) /\ (Ch(s, i) \in cs) # neg
    THEN 1 + RunLen(s, i + 1, cs, neg) ELSE 0

RECURSIVE Ends(_, _, _)
\* the positions e such that r matches s[i..e-1]
Ends(r, s, i) ==
    CASE r.k = "lit" ->
           IF i + Len(r.s) - 1 <= Len(s) /\ SubSeq(s, i, i + Len(r.s) - 1) = r.s
           THEN {i + Len(r.s)} ELSE {}
      [] r.k = "rep" ->
           LET run == RunLen(s, i, r.cs, r.neg)
               top == IF r.hi = -1 \/ run < r.hi THEN run ELSE r.hi
           IN {i + n : n \in r.lo..top}
      [] r.k = "wb" -> IF IsBoundary(s, i) THEN {i} ELSE {}
      [] r.k = "alt" -> UNION {Ends(r.rs[x], s, i) : x \in 1..Len(r.rs)}
      [] r.k = "cat" ->
           IF Len(r.rs) = 0 THEN {i}
           ELSE UNION {Ends(Cat(Tail(r.rs)), s, m) : m \in Ends(Head(r.rs), s, i)}
      [] r.k = "not" -> IF Ends(r.r, s, i) = {} THEN {i} ELSE {}

\* the start positions of the matches of r in s
MatchStarts(r, s) == {i \in 1..(Len(s) + 1) : Ends(r, s, i) # {}}

\* pattern.search(s) is not None
Search(r, s) == MatchStarts(r, s) # {}

-----------------------------------------------------------------------------
(* Python values: a dict entry is missing, None, an int, a str or a        *)
(* datetime (held as its isoformat() text)                                 *)

Missing == [t |-> "missing", n |-> 0, s |-> ""]
PyNone == [t |-> "None", n |-> 0, s |-> ""]
PyInt(n) == [t |-> "int", n |-> n, s |-> ""]
PyStr(s) == [t |-> "str", n |-> 0, s |-> s]
PyDatetime(iso) == [t |-> "datetime", n |-> 0, s |-> iso]
\* a float, in millionths
PyFloat(n) == [t |-> "float", n |-> n, s |-> ""]

\* dict.get(key, default)
Get(d, key, default) ==
    IF key \notin DOMAIN d \/ d[key].t = "missing" THEN default ELSE d[key]

\* bool(v); a missing entry read with .get(key) is None
Truthy(v) ==
    CASE v.t \in {"int", "float"} -> v.n # 0
      [] v.t = "str" -> v.s # ""
      [] v.t = "datetime" -> TRUE
      [] OTHER -> FALSE

RECURSIVE replaceCh(_, _, _)
replaceCh(s, old, new) ==
    IF s = "" THEN ""
    ELSE (IF Head(s) = old THEN new ELSE Head(s)) \o replaceCh(Tail(s), old, new)

\* str(v), also what an f-string puts for {v}
pystr(v) ==
    CASE v.t = "str" -> v.s
      [] v.t = "int" -> intToStr(v.n)
      [] v.t = "datetime" -> replaceCh(v.s, "T", " ")
      [] OTHER -> "None"

-----------------------------------------------------------------------------
(* auction_radar/normalize.py                                              *)

FieldNames ==
    {"source", "source_lot_id", "lot_url", "sale_date_utc", "sale_local_time",
     "tz_name", "location_name", "location_city", "location_state", "vin",
     "year", "make", "model", "trim", "drivetrain", "odometer", "title_status",
     "condition_notes", "raw_text"}

\* the fields normalize_lot reads as raw_lot.get(key, '').strip()
StripFields ==
    {"source", "lot_url", "sale_local_time", "location_name", "location_city",
     "location_state", "vin", "make", "model", "trim", "drivetrain",
     "condition_notes", "raw_text"}

make_mappings ==
    [toyota |-> "Toyota", lexus |-> "Lexus", nissan |-> "Nissan",
     ford |-> "Ford", chevrolet |-> "Chevrolet", chevy |-> "Chevrolet",
     gmc |-> "GMC", honda |-> "Honda", acura |-> "Acura"]

\* salvage ahead of rebuilt
title_order_salvage_first == <<"clean", "salvage", "rebuilt", "parts_only">>

\* the order of the title_patterns dict
title_order == <<"clean", "rebuilt", "salvage", "parts_only">>

title_patterns ==
    [clean |-> Cat(<<WB, Alt(<<Lit("clean"), Lit("clear"), Lit("good")>>), WB>>),
     rebuilt |-> Cat(<<WB, Alt(<<Lit("rebuilt"), Lit("reconstructed"),
                                Lit("repaired")>>), WB>>),
     salvage |-> Cat(<<WB, Alt(<<Lit("salvage"), Lit("salvaged"), Lit("total"),
                                Lit("totaled")>>), WB>>),
     parts_only |-> Cat(<<WB, Alt(<<Cat(<<Lit("parts"), SpStar, Lit("only")>>),
                                   Lit("scrap"), Lit("junk"),
                                   Cat(<<Lit("non"), SpStar, Lit("runner")>>)>>),
                          WB>>)]

\* [A-HJ-NPR-Z0-9]
VinUpperChars == (UpperChars \ {"I", "O", "Q"}) \cup DigitChars
\* the same class under re.IGNORECASE, on lower-cased text
VinLowerChars == (LowerChars \ {"i", "o", "q"}) \cup DigitChars

VinLen == 17

vin_pattern == Cat(<<WB, Rep(VinLowerChars, VinLen, VinLen), WB>>)

year_pattern ==
    Cat(<<WB, Alt(<<Lit("19"), Lit("20")>>), Rep(DigitChars, 2, 2), WB>>)

MinYear == 1900
MaxYear == 2030
MaxOdometer == 1000000

\* dateutil.parser.parse(s).isoformat() on the date texts of the model;
\* any other text makes the parser raise
DateTexts ==
    [iso |-> [text |-> "2024-03-15T10:00:00", parsed |-> "2024-03-15T10:00:00"],
     us |-> [text |-> "March 15, 2024 10:00 AM", parsed |-> "2024-03-15T10:00:00"],
     day |-> [text |-> "2024-03-15", parsed |-> "2024-03-15T00:00:00"],
     dayiso |-> [text |-> "2024-03-15T00:00:00", parsed |-> "2024-03-15T00:00:00"]]

_normalize_datetime(dt_value) ==
    IF ~Truthy(dt_value) THEN PyNone
    ELSE IF dt_value.t = "datetime" THEN PyStr(dt_value.s)
    ELSE IF dt_value.t = "str"
         THEN IF \E d \in DOMAIN DateTexts : DateTexts[d].text = dt_value.s
              THEN PyStr(DateTexts[CHOOSE d \in DOMAIN DateTexts :
                                     DateTexts[d].text = dt_value.s].parsed)
              ELSE PyNone
    ELSE PyNone

_normalize_vin(vin) ==
    IF vin = "" THEN ""
    ELSE LET v == filterChars(upper(vin), VinUpperChars)
         IN IF Len(v) = VinLen THEN v ELSE ""

YearInRange(n) == MinYear <= n /\ n <= MaxYear

_normalize_year(year) ==
    IF year.t = "int" /\ YearInRange(year.n) THEN year
    ELSE IF year.t = "str"
         THEN LET digits == filterChars(year.s, DigitChars)
              IN IF digits = "" THEN PyNone   \* int('') raises, caught
                 ELSE IF YearInRange(strToInt(digits)) THEN PyInt(strToInt(digits))
                 ELSE PyNone
    ELSE PyNone

_normalize_make(make) ==
    IF make = "" THEN ""
    ELSE LET make_lower == strip(lower(make))
         IN IF make_lower \in DOMAIN make_mappings
            THEN make_mappings[make_lower] ELSE title(make)

_normalize_model(model) ==
    IF model = "" THEN "" ELSE title(collapseSpaces(strip(model)))

OdometerInRange(n) == 0 <= n /\ n <= MaxOdometer

_normalize_odometer(odometer) ==
    IF odometer.t = "int" /\ OdometerInRange(odometer.n) THEN odometer
    ELSE IF odometer.t = "str"
         THEN LET starts == MatchStarts(DigPlus, odometer.s)
              IN IF starts = {} THEN PyNone
                 ELSE LET i == SetMin(starts)
                          e == SetMax(Ends(DigPlus, odometer.s, i))
                          odo == strToInt(SubSeq(odometer.s, i, e - 1))
                      IN IF OdometerInRange(odo) THEN PyInt(odo) ELSE PyNone
    ELSE PyNone

_normalize_title_status(title_status, raw_text) ==
    LET search_text == lower(pystr(title_status) \o " " \o pystr(raw_text))
        hits == {x \in 1..Len(title_order) :
                   Search(title_patterns[title_order[x]], search_text)}
    IN IF hits = {} THEN "unknown" ELSE title_order[SetMin(hits)]

MakeWords ==
    <<"toyota", "lexus", "nissan", "ford", "chevrolet", "chevy", "gmc",
      "honda", "acura">>

\* [a-z0-9\-\s]
ModelChars == LowerChars \cup DigitChars \cup {"-"} \cup SpaceChars

ModelRun == Rep(ModelChars, 1, -1)

\* (toyota|lexus|...)\s+([a-z0-9\-\s]+) with the make word w
MakeModelWith(w) == Cat(<<Lit(w), SpPlus, ModelRun>>)

MakeModel == Alt([x \in 1..Len(MakeWords) |-> MakeModelWith(MakeWords[x])])

\* the two patterns of _extract_make_model
make_model_patterns ==
    <<Cat(<<WB, MakeModel>>),
      Cat(<<WB, Rep(DigitChars, 4, 4), SpPlus, MakeModel>>)>>

\* the make word of a match of MakeModel that starts at i: the first one in
\* the order of the alternation
MakeAt(s, i) ==
    MakeWords[SetMin({y \in 1..Len(MakeWords) :
                        Ends(MakeModelWith(MakeWords[y]), s, i) # {}})]

\* where the last group starts: \s+ takes as many spaces from i on as leave
\* a character for the group
ModelStart(s, i) ==
    SetMax({e \in Ends(SpPlus, s, i) : Ends(ModelRun, s, e) # {}})

\* the last group runs from i as far as it can
ModelFrom(s, i) == SubSeq(s, i, SetMax(Ends(ModelRun, s, i)) - 1)

\* the groups (make, model) of the match of MakeModel with make word w that
\* starts at i
GroupsWith(s, i, w) == <<w, ModelFrom(s, ModelStart(s, i + Len(w)))>>

MakeModelGroups(s, i) == GroupsWith(s, i, MakeAt(s, i))

\* where MakeModel starts in a match of the second pattern that starts at
\* i: after the year and its spaces
MakeStart(s, i) ==
    SetMax({e \in Ends(SpPlus, s, i + 4) : Ends(MakeModel, s, e) # {}})

\* match.groups() of the match of make_model_patterns[p] that starts at i
GroupsAt(p, s, i) ==
    IF p = 1 THEN MakeModelGroups(s, i)
    ELSE <<SubSeq(s, i, i + 3)>> \o MakeModelGroups(s, MakeStart(s, i))

\* the groups of the leftmost match of make_model_patterns[p]
PatternGroups(p, s) ==
    GroupsAt(p, s, SetMin(MatchStarts(make_model_patterns[p], s)))

\* make and model as taken from the groups: after the year, if there is one
MakeAndModel(groups) ==
    IF isdigit(groups[1]) THEN <<groups[2], groups[3]>>
    ELSE <<groups[1], groups[2]>>

\* the tuple returned for make and model; model.split() is empty for a
\* model of spaces, and [0] raises
NormalizedPair(pair) ==
    IF strip(pair[2]) = ""
    THEN [exc |-> "IndexError", make |-> PyNone, model |-> PyNone]
    ELSE [exc |-> "", make |-> PyStr(_normalize_make(pair[1])),
          model |-> PyStr(title(firstWord(pair[2])))]

\* the loop over the patterns, given the patterns that match
FirstMatch(hits, text_lower) ==
    IF hits = {} THEN [exc |-> "", make |-> PyNone, model |-> PyNone]
    ELSE NormalizedPair(MakeAndModel(PatternGroups(SetMin(hits), text_lower)))

\* the result is [exc, make, model]; exc names the exception that escapes
_extract_make_model(text) ==
    FirstMatch({p \in 1..Len(make_model_patterns) :
                  Search(make_model_patterns[p], lower(text))},
               lower(text))

\* the VIN step without the test that the lot has no vin
ExtractVin_always(lot, raw_text) ==
    LET starts == MatchStarts(vin_pattern, lower(raw_text))
    IN IF starts # {}
       THEN [lot EXCEPT !["vin"] =
                PyStr(SubSeq(raw_text, SetMin(starts), SetMin(starts) + VinLen - 1))]
       ELSE lot

\* the lot after the VIN step of _extract_from_raw_text
ExtractVin(lot, raw_text) ==
    LET starts == MatchStarts(vin_pattern, lower(raw_text))
    IN IF ~Truthy(lot["vin"]) /\ starts # {}
       THEN [lot EXCEPT !["vin"] =
                PyStr(SubSeq(raw_text, SetMin(starts), SetMin(starts) + VinLen - 1))]
       ELSE lot

\* the lot after the year step: findall returns the text of the one group
\* of year_pattern, "19" or "20", for every match; the last one is taken
ExtractYear(lot, raw_text) ==
    LET starts == MatchStarts(year_pattern, raw_text)
    IN IF ~Truthy(lot["year"]) /\ starts # {}
       THEN [lot EXCEPT !["year"] =
                PyInt(strToInt(SubSeq(raw_text, SetMax(starts), SetMax(starts) + 1)))]
       ELSE lot

\* lot['make'] = make if make is found and lot has none
WithMake(lot, mm) ==
    IF Truthy(mm.make) /\ ~Truthy(lot["make"])
    THEN [lot EXCEPT !["make"] = mm.make] ELSE lot

\* lot['model'] = model if model is found and lot has none
WithModel(lot, mm) ==
    IF Truthy(mm.model) /\ ~Truthy(lot["model"])
    THEN [lot EXCEPT !["model"] = mm.model] ELSE lot

\* the lot after the make/model step, given what _extract_make_model did
WithMakeModel(lot, mm) ==
    IF mm.exc # "" THEN [exc |-> mm.exc, lot |-> lot]
    ELSE [exc |-> "", lot |-> WithModel(WithMake(lot, mm), mm)]

\* the make/model step on the lot that the VIN and year steps left
ExtractMakeModel(lot, raw_text) ==
    IF Truthy(lot["make"]) /\ Truthy(lot["model"]) THEN [exc |-> "", lot |-> lot]
    ELSE WithMakeModel(lot, _extract_make_model(raw_text))

\* the result is [exc, lot]
_extract_from_raw_text(lot, raw_text) ==
    ExtractMakeModel(ExtractYear(ExtractVin(lot, raw_text), raw_text), raw_text)

\* raw_lot.get(key, '').strip()
Stripped(raw_lot, key) == PyStr(strip(Get(raw_lot, key, PyStr("")).s))

\* the dict literal of normalize_lot, given that no .strip() raised
NormalizedFields(raw_lot) ==
    [f \in FieldNames |->
       CASE f = "source_lot_id" ->
              PyStr(strip(pystr(Get(raw_lot, f, PyStr("")))))
         [] f = "sale_date_utc" -> _normalize_datetime(Get(raw_lot, f, PyNone))
         [] f = "tz_name" -> Get(raw_lot, f, PyStr("America/New_York"))
         [] f = "vin" -> PyStr(_normalize_vin(Stripped(raw_lot, f).s))
         [] f = "year" -> _normalize_year(Get(raw_lot, f, PyNone))
         [] f = "make" -> PyStr(_normalize_make(Stripped(raw_lot, f).s))
         [] f = "model" -> PyStr(_normalize_model(Stripped(raw_lot, f).s))
         [] f = "odometer" -> _normalize_odometer(Get(raw_lot, f, PyNone))
         [] f = "title_status" ->
              PyStr(_normalize_title_status(Get(raw_lot, f, PyStr("")),
                                            Get(raw_lot, "raw_text", PyStr(""))))
         [] OTHER -> Stripped(raw_lot, f)]

\* what normalize_lot returns or raises after _extract_from_raw_text
Returned(r, raw_lot) ==
    IF r.exc # "" THEN [exc |-> r.exc, lot |-> raw_lot] ELSE r

\* the result is [exc, lot]: exc is "" and lot the normalized lot, or exc
\* names the exception that normalize_lot lets escape
normalize_lot(raw_lot) ==
    IF \E f \in StripFields : Get(raw_lot, f, PyStr("")).t # "str"
    \* a value without .strip()
    THEN [exc |-> "AttributeError", lot |-> raw_lot]
    ELSE IF Truthy(Get(raw_lot, "raw_text", PyNone))
         THEN Returned(_extract_from_raw_text(NormalizedFields(raw_lot),
                                              raw_lot["raw_text"].s), raw_lot)
         ELSE [exc |-> "", lot |-> NormalizedFields(raw_lot)]

-----------------------------------------------------------------------------
(* auction_radar/keywords.py                                               *)

\* land\s*cruiser
LandCruiserWords == Cat(<<Lit("land"), SpStar, Lit("cruiser")>>)

\* (?!\s*(?:expand|slide|out))
NotExpanded ==
    NotAhead(Cat(<<SpStar, Alt(<<Lit("expand"), Lit("slide"), Lit("out")>>)>>))

\* the order of the patterns dict
categories ==
    <<"land_cruiser", "fourrunner", "toyota_trucks", "nissan_trucks",
      "mini_campers_motor", "mini_campers_tow">>

\* regex, score (in hundredths) and keywords of every category
patterns ==
    [land_cruiser |->
       [regex |-> Cat(<<WB, Alt(<<
            Cat(<<Alt(<<Lit("lexus"), Lit("toyota")>>), DotStar,
                  Alt(<<LandCruiserWords, Lit("landcruiser")>>)>>),
            LandCruiserWords, Lit("landcruiser"),
            Cat(<<Lit("lx"), SpStar, DigPlus>>),
            Lit("lx570"), Lit("lx470"), Lit("lx450"),
            Cat(<<Lit("lc"), SpStar, DigPlus>>),
            Lit("lc200"), Lit("lc100"), Lit("lc80")>>), WB>>),
        score |-> 100,
        keywords |-> <<"land cruiser", "landcruiser", "lexus lx", "lx570",
                       "lx470", "lc200", "lc100", "lc80">>],
     fourrunner |->
       [regex |-> Cat(<<WB, Alt(<<
            Cat(<<Lit("4"), Rep(SpaceChars \cup {"-"}, 0, -1), Lit("runner")>>),
            Cat(<<Lit("four"), Rep(SpaceChars \cup {"-"}, 0, -1), Lit("runner")>>)
            >>), WB>>),
        score |-> 95,
        keywords |-> <<"4runner", "four runner", "4 runner", "4-runner">>],
     toyota_trucks |->
       [regex |-> Cat(<<WB, Alt(<<
            Cat(<<Lit("toyota"), DotStar,
                  Alt(<<Lit("tacoma"), Lit("tundra"), Lit("t100"), Lit("pickup")>>)>>),
            Alt(<<Lit("tacoma"), Lit("tundra"), Lit("t100")>>)>>), WB>>),
        score |-> 90,
        keywords |-> <<"tacoma", "tundra", "toyota pickup", "t100">>],
     nissan_trucks |->
       [regex |-> Cat(<<WB, Alt(<<
            Cat(<<Lit("nissan"), DotStar,
                  Alt(<<Lit("frontier"), Lit("titan"), Lit("navara"),
                        Lit("hardbody"), Lit("pickup")>>)>>),
            Alt(<<Lit("frontier"), Lit("titan"), Lit("navara"), Lit("hardbody")>>)
            >>), WB>>),
        score |-> 85,
        keywords |-> <<"frontier", "titan", "nissan pickup", "navara", "hardbody">>],
     mini_campers_motor |->
       [regex |-> Cat(<<WB, Alt(<<
            Cat(<<Lit("class"), SpStar, Lit("b")>>),
            Cat(<<Lit("mini"), SpStar, Lit("motor"), SpStar, Lit("home")>>),
            Cat(<<Lit("small"), SpStar, Lit("rv")>>),
            Cat(<<Lit("conversion"), SpStar, Lit("van")>>),
            Lit("roadtrek"),
            Cat(<<Lit("pleasure"), SpStar, Lit("way")>>),
            Cat(<<Lit("leisure"), SpStar, Lit("travel"), SpStar, Lit("van")>>),
            Cat(<<Lit("great"), SpStar, Lit("west"), SpStar, Lit("van")>>)>>),
            NotExpanded, WB>>),
        score |-> 80,
        keywords |-> <<"class b", "mini motorhome", "conversion van", "roadtrek",
                       "pleasure way">>],
     mini_campers_tow |->
       [regex |-> Cat(<<WB, Alt(<<
            Lit("teardrop"),
            Cat(<<Lit("small"), SpStar, Lit("travel"), SpStar, Lit("trailer")>>),
            Cat(<<Lit("mini"), SpStar, Lit("trailer")>>),
            Cat(<<Lit("compact"), SpStar, Lit("trailer")>>),
            Cat(<<Lit("pop"), SpStar, Lit("up")>>),
            Lit("casita"), Lit("scamp"), Lit("t@b"), Lit("tab"),
            Cat(<<Lit("little"), SpStar, Lit("guy")>>),
            Lit("rpod"),
            Cat(<<Lit("r"), SpStar, Lit("pod")>>)>>),
            NotExpanded, WB>>),
        score |-> 75,
        keywords |-> <<"teardrop", "small travel trailer", "pop up", "casita",
                       "scamp", "little guy", "rpod">>]]

\* sub in s
Contains(s, sub) ==
    \E i \in 1..(Len(s) - Len(sub) + 1) : SubSeq(s, i, i + Len(sub) - 1) = sub

RECURSIVE SelectKeywords(_, _)
\* the keywords of the list that occur in text_lower, in list order
SelectKeywords(kws, text_lower) ==
    IF kws = <<>> THEN <<>>
    ELSE (IF Contains(text_lower, lower(Head(kws))) THEN <<Head(kws)>> ELSE <<>>)
         \o SelectKeywords(Tail(kws), text_lower)

\* the keywords found, without the category name in their place when
\* there are none
TargetMatch_found_only(category, text_lower) ==
    [category |-> category,
     keywords |-> SelectKeywords(patterns[category].keywords, text_lower),
     score |-> patterns[category].score]

TargetMatch(category, text_lower) ==
    LET matched_keywords == SelectKeywords(patterns[category].keywords, text_lower)
    IN [category |-> category,
        keywords |-> IF matched_keywords = <<>> THEN <<category>>
                     ELSE matched_keywords,
        score |-> patterns[category].score]

RECURSIVE MatchesFrom(_, _)
MatchesFrom(x, text_lower) ==
    IF x > Len(categories) THEN <<>>
    ELSE (IF Search(patterns[categories[x]].regex, text_lower)
          THEN <<TargetMatch(categories[x], text_lower)>> ELSE <<>>)
         \o MatchesFrom(x + 1, text_lower)

\* a TargetMatch for every category whose regex matches, in dict order
find_matches(text) == MatchesFrom(1, lower(text))

NoMatch == [category |-> "", keywords |-> <<>>, score |-> 0]

\* min(matches, key=score) in place of max
get_best_match_min(text) ==
    LET matches == find_matches(text)
    IN IF matches = <<>> THEN NoMatch
       ELSE matches[SetMin({x \in 1..Len(matches) :
                              \A y \in 1..Len(matches) :
                                 matches[y].score >= matches[x].score})]

\* max(matches, key=score): the first match of the highest score;
\* NoMatch stands for None
get_best_match(text) ==
    LET matches == find_matches(text)
    IN IF matches = <<>> THEN NoMatch
       ELSE matches[SetMin({x \in 1..Len(matches) :
                              \A y \in 1..Len(matches) :
                                 matches[y].score <= matches[x].score})]

has_target_match(text) == find_matches(text) # <<>>

-----------------------------------------------------------------------------
(* auction_radar/ranker.py: penalties in hundredths, scores in millionths  *)

\* parts_only loses the whole score
title_penalties_full ==
    [clean |-> 0, rebuilt |-> 5, salvage |-> 20, parts_only |-> 100, unknown |-> 10]

\* salvage is penalised 2% only
title_penalties_light_salvage ==
    [clean |-> 0, rebuilt |-> 5, salvage |-> 2, parts_only |-> 60, unknown |-> 10]

title_penalties ==
    [clean |-> 0, rebuilt |-> 5, salvage |-> 20, parts_only |-> 60, unknown |-> 10]

default_title_penalty == 10
age_penalty_per_year == 1
max_age_penalty == 30
unknown_year_penalty == 10

\* the score 1.0
ScoreOne == 1000000

\* f"{lot.get('make', '')} {lot.get('model', '')} {lot.get('raw_text', '')}"
search_text(lot) ==
    pystr(Get(lot, "make", PyStr(""))) \o " "
    \o pystr(Get(lot, "model", PyStr(""))) \o " "
    \o pystr(Get(lot, "raw_text", PyStr("")))

_get_keyword_score(lot) == get_best_match(search_text(lot)).score

\* rebuilt is penalised more than salvage
_get_title_penalty_swapped(title_status) ==
    IF title_status.t = "str" /\ title_status.s \in DOMAIN title_penalties
    THEN IF title_status.s = "rebuilt" THEN 25 ELSE title_penalties[title_status.s]
    ELSE default_title_penalty

\* self.title_penalties.get(title_status, 0.1)
_get_title_penalty(title_status) ==
    IF title_status.t = "str" /\ title_status.s \in DOMAIN title_penalties
    THEN title_penalties[title_status.s] ELSE default_title_penalty

\* the penalty grows without the cap of max_age_penalty
_get_age_penalty_uncapped(year, current_year) ==
    IF ~Truthy(year) THEN unknown_year_penalty
    ELSE LET age == current_year - year.n
         IN IF age <= 0 THEN 0 ELSE age * age_penalty_per_year

\* max(age * age_penalty_per_year, max_age_penalty) in place of min
_get_age_penalty_max(year, current_year) ==
    IF ~Truthy(year) THEN unknown_year_penalty
    ELSE LET age == current_year - year.n
         IN IF age <= 0 THEN 0
            ELSE IF age * age_penalty_per_year > max_age_penalty
                 THEN age * age_penalty_per_year ELSE max_age_penalty

\* year is None or an int, as in a normalized lot; current_year is
\* datetime.now().year
_get_age_penalty(year, current_year) ==
    IF ~Truthy(year) THEN unknown_year_penalty
    ELSE LET age == current_year - year.n
         IN IF age <= 0 THEN 0
            ELSE IF age * age_penalty_per_year < max_age_penalty
                 THEN age * age_penalty_per_year ELSE max_age_penalty

\* max(0, min(1, x))
Clamp(x) == IF x < 0 THEN 0 ELSE IF x > ScoreOne THEN ScoreOne ELSE x

score_lot(lot, now_year) ==
    LET base_score == _get_keyword_score(lot)
        title_penalty == _get_title_penalty(Get(lot, "title_status", PyStr("unknown")))
        age_penalty == _get_age_penalty(Get(lot, "year", PyNone), now_year)
    IN IF base_score = 0 THEN 0
       ELSE Clamp(base_score * (100 - title_penalty) * (100 - age_penalty))

\* lot.copy() with lot_copy['score'] = score
WithScore(lot, score) ==
    [key \in DOMAIN lot \cup {"score"} |->
       IF key = "score" THEN PyFloat(score) ELSE lot[key]]

\* the input dict written through: lot_copy is the input dict itself
InputLotAfter_alias(lot, score) ==
    IF score > 0 THEN WithScore(lot, score) ELSE lot

\* an input lot after the first loop of rank_lots: the score is set on
\* lot.copy(), a dict of its own, and the input dict is as it was
InputLotAfter(lot, score) == lot

RECURSIVE ScoredFrom(_, _, _)
\* the first loop of rank_lots; an entry is the copy of input lot number src
ScoredFrom(lots, x, now_year) ==
    IF x > Len(lots) THEN <<>>
    ELSE LET score == score_lot(lots[x], now_year)
         IN (IF score > 0 THEN <<[src |-> x, lot |-> WithScore(lots[x], score)]>>
             ELSE <<>>) \o ScoredFrom(lots, x + 1, now_year)

RECURSIVE VinToLot_first(_, _)
\* the first lot of a VIN stays, whatever the scores
VinToLot_first(lots, x) ==
    IF x = 0 THEN <<>>
    ELSE LET kept == VinToLot_first(lots, x - 1)
             vin == Get(lots[x].lot, "vin", PyNone)
         IN IF ~Truthy(vin) \/ \E y \in 1..Len(kept) : kept[y].lot["vin"] = vin
            THEN kept ELSE Append(kept, lots[x])

RECURSIVE VinToLot(_, _)
\* the values of the dict vin_to_lot after the loop over the first x lots, in
\* the order in which their keys were inserted
VinToLot(lots, x) ==
    IF x = 0 THEN <<>>
    ELSE LET kept == VinToLot(lots, x - 1)
             vin == Get(lots[x].lot, "vin", PyNone)
             same == {y \in 1..Len(kept) : kept[y].lot["vin"] = vin}
         IN IF ~Truthy(vin) THEN kept
            ELSE IF same = {} THEN Append(kept, lots[x])
            ELSE LET y == CHOOSE z \in same : TRUE
                 IN IF lots[x].lot["score"].n > kept[y].lot["score"].n
                    THEN [kept EXCEPT ![y] = lots[x]] ELSE kept

HasNoVin(entry) == ~Truthy(Get(entry.lot, "vin", PyNone))

_deduplicate_by_vin(lots) == VinToLot(lots, Len(lots)) \o SelectSeq(lots, HasNoVin)

\* the list is left in the order of the dict and the no-VIN lots
SortByScore_none(entries) == entries

RECURSIVE SortByScore(_)
\* list.sort(key=score, reverse=True): descending, equal scores keep their order
SortByScore(entries) ==
    IF entries = <<>> THEN <<>>
    ELSE LET n == Len(entries)
             sorted == SortByScore(SubSeq(entries, 1, n - 1))
             e == entries[n]
             before == {y \in 1..Len(sorted) :
                          sorted[y].lot["score"].n < e.lot["score"].n}
             at == IF before = {} THEN Len(sorted) + 1 ELSE SetMin(before)
         IN SubSeq(sorted, 1, at - 1) \o <<e>> \o SubSeq(sorted, at, Len(sorted))

rank_lots(lots, now_year) ==
    SortByScore(_deduplicate_by_vin(ScoredFrom(lots, 1, now_year)))

-----------------------------------------------------------------------------
(* auction_radar/target_filter.py                                          *)

\* the order of the TARGET_VEHICLES dict
\* the types from the lowest priority to the highest
vehicle_types_rising ==
    <<"recreational_vehicles", "nissan_frontier", "toyota_tundra",
      "toyota_tacoma", "lexus_lx", "toyota_land_cruiser", "toyota_4runner">>

vehicle_types ==
    <<"toyota_4runner", "toyota_land_cruiser", "lexus_lx", "toyota_tacoma",
      "toyota_tundra", "nissan_frontier", "recreational_vehicles">>

TARGET_VEHICLES ==
    [toyota_4runner |->
       [make |-> <<"toyota">>, model |-> <<"4runner", "4-runner", "fourrunner">>,
        keywords |-> <<"4runner", "4-runner", "four runner">>, priority |-> 10],
     toyota_land_cruiser |->
       [make |-> <<"toyota">>,
        model |-> <<"land cruiser", "landcruiser", "lc", "land-cruiser">>,
        keywords |-> <<"land cruiser", "landcruiser", "land-cruiser">>,
        priority |-> 10],
     lexus_lx |->
       [make |-> <<"lexus">>, model |-> <<"lx", "lx470", "lx570", "lx600">>,
        keywords |-> <<"lx470", "lx570", "lx600", "lx 470", "lx 570", "lx 600">>,
        priority |-> 9],
     toyota_tacoma |->
       [make |-> <<"toyota">>, model |-> <<"tacoma">>,
        keywords |-> <<"tacoma">>, priority |-> 8],
     toyota_tundra |->
       [make |-> <<"toyota">>, model |-> <<"tundra">>,
        keywords |-> <<"tundra">>, priority |-> 7],
     nissan_frontier |->
       [make |-> <<"nissan">>, model |-> <<"frontier">>,
        keywords |-> <<"frontier">>, priority |-> 6],
     recreational_vehicles |->
       [make |-> <<"*">>, model |-> <<"*">>,
        keywords |-> <<"camper", "rv", "motorhome", "travel trailer",
                       "fifth wheel", "toy hauler">>,
        priority |-> 5]]

TARGET_STATES == <<"CT", "NY", "NJ", "RI", "MA">>

\* any(word in text for word in words)
AnyIn(words, text) == \E x \in 1..Len(words) : Contains(text, words[x])

\* (lot_data.get(key) or '').lower()
LowerOr(lot_data, key) ==
    LET v == Get(lot_data, key, PyNone)
    IN IF Truthy(v) THEN lower(v.s) ELSE ""

\* f"{make} {model} {raw_text} {condition_notes}"
target_search_text(lot_data) ==
    LowerOr(lot_data, "make") \o " " \o LowerOr(lot_data, "model") \o " "
    \o LowerOr(lot_data, "raw_text") \o " " \o LowerOr(lot_data, "condition_notes")

\* the match info, or NoTarget for None; match_score is in tenths
NoTarget == [vehicle_type |-> "", priority |-> 0, match_score |-> 0, is_target |-> FALSE]

_check_vehicle_match(lot_data, text, vehicle_type, criteria) ==
    LET make == LowerOr(lot_data, "make")
        model == LowerOr(lot_data, "model")
        year == Get(lot_data, "year", PyNone)
        make_ok == criteria.make = <<"*">> \/ AnyIn(criteria.make, make)
        model_ok == \/ criteria.model = <<"*">>
                    \/ AnyIn(criteria.model, model)
                    \/ AnyIn(criteria.keywords, text)
        keyword_match == AnyIn(criteria.keywords, text)
        year_bonus == IF Truthy(year) /\ year.n > 2010 THEN year.n - 2010 ELSE 0
    IN IF make_ok /\ model_ok /\ keyword_match
       THEN [vehicle_type |-> vehicle_type, priority |-> criteria.priority,
             match_score |-> 10 * criteria.priority + year_bonus,
             is_target |-> TRUE]
       ELSE NoTarget

\* the fields is_target_vehicle calls a str method on hold a str, None or
\* nothing, as every scraper leaves them
is_target_vehicle(lot_data) ==
    LET state == upper(Get(lot_data, "location_state", PyStr("")).s)
        text == target_search_text(lot_data)
        hits == {x \in 1..Len(vehicle_types) :
                   _check_vehicle_match(lot_data, text, vehicle_types[x],
                                        TARGET_VEHICLES[vehicle_types[x]]).is_target}
    IN IF \A x \in 1..Len(TARGET_STATES) : TARGET_STATES[x] # state THEN NoTarget
       ELSE IF hits = {} THEN NoTarget
       ELSE _check_vehicle_match(lot_data, text, vehicle_types[SetMin(hits)],
                                 TARGET_VEHICLES[vehicle_types[SetMin(hits)]])

-----------------------------------------------------------------------------
(* auction_radar/db_adapter.py and db.py: the lots table                   *)

\* the columns of the table that the lots of the model use
TableColumns ==
    {"id", "source", "source_lot_id", "sale_date_utc", "location_state", "make",
     "model", "year", "title_status", "raw_text", "created_at", "updated_at"}

\* the value SQL stores for a Python value in a TEXT column
AsText(v) == IF v.t \in {"None", "missing"} THEN PyNone ELSE PyStr(pystr(v))

\* a new row: the supplied columns, the DEFAULT of the others; the clock
\* stands for CURRENT_TIMESTAMP
NewRow(lot_data, id, clock) ==
    [c \in TableColumns |->
       CASE c = "id" -> PyInt(id)
         [] c \in {"source", "source_lot_id"} -> AsText(lot_data[c])
         [] c \in DOMAIN lot_data -> lot_data[c]
         [] c = "title_status" -> PyStr("unknown")
         [] c \in {"created_at", "updated_at"} -> PyInt(clock)
         [] OTHER -> PyNone]

\* UPDATE lots SET k = ? ... for every supplied k but the two key columns
UpdatedRow(row, lot_data) ==
    [c \in TableColumns |->
       IF c \in DOMAIN lot_data \ {"source", "source_lot_id"}
       THEN lot_data[c] ELSE row[c]]

\* a table without the UNIQUE constraint: no row is set against lot_data
SamePair_none(table, lot_data) == {}

\* the rows that UNIQUE(source, source_lot_id) sets against lot_data
SamePair(table, lot_data) ==
    {x \in 1..Len(table) :
       /\ table[x]["source"] = AsText(lot_data["source"])
       /\ table[x]["source_lot_id"] = AsText(lot_data["source_lot_id"])}

\* datetime.fromisoformat(text) does not raise
IsIsoText(text) ==
    text \in {DateTexts.iso.text, DateTexts.day.text, DateTexts.dayiso.text}

\* lot_data as upsert_lot hands it to the INSERT: sale_date_utc cleared when
\* PostgreSQL is used and the text is no ISO date, updated_at set
Prepared(lot_data, postgres, clock) ==
    [k \in DOMAIN lot_data \cup {"updated_at"} |->
       CASE k = "updated_at" -> PyInt(clock)
         [] k = "sale_date_utc" ->
              IF postgres /\ Truthy(lot_data[k]) /\ lot_data[k].t = "str"
                 /\ ~IsIsoText(lot_data[k].s)
              THEN PyNone ELSE lot_data[k]
         [] OTHER -> lot_data[k]]

\* a check of the source alone
HasRequired_source_only(lot_data) == Truthy(Get(lot_data, "source", PyNone))

\* lot_data.get('source') and lot_data.get('source_lot_id') are both truthy
HasRequired(lot_data) ==
    /\ Truthy(Get(lot_data, "source", PyNone))
    /\ Truthy(Get(lot_data, "source_lot_id", PyNone))

\* the result is [ret, table, next_id]: the value upsert_lot returns, the
\* table and the id sequence it leaves; a column that the table does not
\* have makes the statement raise, which upsert_lot catches; PostgreSQL
\* draws the id of the row before it finds the conflict
upsert_lot(table, next_id, lot_data0, postgres, clock) ==
    IF ~HasRequired(lot_data0)
    THEN [ret |-> FALSE, table |-> table, next_id |-> next_id]
    ELSE LET lot_data == Prepared(lot_data0, postgres, clock)
             same == SamePair(table, lot_data)
         IN IF ~(DOMAIN lot_data \subseteq TableColumns)
            THEN [ret |-> FALSE, table |-> table, next_id |-> next_id]
            ELSE IF same = {}
            THEN [ret |-> TRUE,
                  table |-> Append(table, NewRow(lot_data, next_id, clock)),
                  next_id |-> next_id + 1]
            ELSE [ret |-> TRUE,
                  table |-> [x \in 1..Len(table) |->
                               IF x \in same THEN UpdatedRow(table[x], lot_data)
                               ELSE table[x]],
                  next_id |-> IF postgres THEN next_id + 1 ELSE next_id]

\* str(bool)
BoolStr(b) == IF b THEN "True" ELSE "False"

-----------------------------------------------------------------------------
(* auction_radar/__main__.py: the loop of crawl_sources over raw_lots      *)

\* the body of "for raw_lot in raw_lots" from raw_lots[x] on; st holds the
\* database, the two local counters and the upsert_lot calls made
RECURSIVE ProcessLots(_, _, _, _, _)
ProcessLots(st, raw_lots, x, scraper, postgres) ==
    IF x > Len(raw_lots) THEN st
    ELSE LET raw == raw_lots[x]
             is_target == is_target_vehicle(raw).is_target
             done == upsert_lot(st.table, st.next_id, raw, postgres, st.clock)
             one == IF done.ret THEN 1 ELSE 0
         IN ProcessLots(
              [table |-> done.table, next_id |-> done.next_id,
               clock |-> st.clock + 1,
               processed_lots |-> st.processed_lots + one,
               target_lots |-> st.target_lots + (IF is_target THEN one ELSE 0),
               log |-> Append(st.log, [scraper |-> scraper, lot |-> raw,
                                        ret |-> BoolStr(done.ret)])],
              raw_lots, x + 1, scraper, postgres)

-----------------------------------------------------------------------------
(* auction_radar/utils.py retry_with_backoff, sources/base.py safe_get     *)

\* the parameters of @retry_with_backoff(max_retries=3) on safe_get
safe_get_retries == 3
default_base_delay == 1
default_max_delay == 60

Min(a, b) == IF a < b THEN a ELSE b

\* the delay without the cap of max_delay
Delay_uncapped(base, attempt_no, cap) == base * 2^attempt_no

\* delay = min(base_delay * (2 ** attempt), max_delay)
Delay(base, attempt_no, cap) == Min(base * 2^attempt_no, cap)

\* check_robots_txt: True unless robots.txt was read and forbids the url
check_robots_txt(robots_txt) == robots_txt # "blocked"

\* what session.get or response.raise_for_status can raise
RequestErrors == {"Timeout", "RequestException", "HTTPError", "Exception"}

\* one call of the body of safe_get: every exception of session.get and of
\* raise_for_status is caught and None returned; nothing is raised
safe_get(robots_txt, effects, calls) ==
    IF ~check_robots_txt(robots_txt)
    THEN [raised |-> FALSE, result |-> "None", get_calls |-> calls]
    ELSE IF effects[calls + 1] \in RequestErrors
    THEN [raised |-> FALSE, result |-> "None", get_calls |-> calls + 1]
    ELSE [raised |-> FALSE, result |-> effects[calls + 1], get_calls |-> calls + 1]

\* one call of a function that raises or returns as its side_effect says
other_func(effects, calls) ==
    [raised |-> effects[calls + 1] = "raise", result |-> effects[calls + 1],
     get_calls |-> 0]

-----------------------------------------------------------------------------
(* State                                                                   *)

VARIABLES
    \* normalize_lot: the raw record, the result of normalize_lot on it, the
    \* result of normalize_lot on that result, and how far the calls went
    raw_lot, normalized, renormalized, npc,
    \* the ranker: the list of lots, datetime.now().year, score_lot of every
    \* lot, score_lot of the first lot under each title status and under
    \* each year, the list rank_lots returned, and how far the calls went
    lots, now_year, scores, title_scores, year_scores, ranked, rpc,
    \* a call of one function: its name, its arguments, whether it has
    \* returned, and what it returned
    callee, args, has_returned, returned,
    \* the lots table: its rows, the id of the next row, the time, the
    \* backend, and the argument and the result of the last upsert_lot
    table, next_id, clock, use_postgres, upsert_arg, upsert_ret,
    \* crawl_sources: the position of the loop over the scrapers, the crawl()
    \* and upsert_lot calls made so far, the two counters, and how far the
    \* call went
    scraper_idx, crawl_log, upsert_log, total_lots,
    successful_scrapers, cpc,
    \* a call of a function under retry_with_backoff: the function, the
    \* parameters of the decorator, what check_robots_txt and the calls of
    \* the wrapped function or of session.get will do, the attempt, the calls
    \* of session.get and of the function so far, the sleeps, the outcome
    func, max_retries, base_delay, max_delay, robots, side_effect, attempt,
    get_calls, func_calls, delays, fetch_result, fpc

norm_vars == <<raw_lot, normalized, renormalized, npc>>
rank_vars == <<lots, now_year, scores, title_scores, year_scores, ranked, rpc>>
call_vars == <<callee, args, has_returned, returned>>
db_vars == <<table, next_id, clock, use_postgres, upsert_arg, upsert_ret>>
crawl_vars ==
    <<scraper_idx, crawl_log, upsert_log, total_lots,
      successful_scrapers, cpc>>
fetch_vars ==
    <<func, max_retries, base_delay, max_delay, robots, side_effect, attempt,
      get_calls, func_calls, delays, fetch_result, fpc>>
io_vars == <<db_vars, crawl_vars, fetch_vars>>
vars == <<norm_vars, rank_vars, call_vars, io_vars>>

\* a dict with the given entries
RawLot(entries) ==
    [f \in FieldNames |-> IF f \in DOMAIN entries THEN entries[f] ELSE Missing]

NoResult == [exc |-> "", lot |-> RawLot(<<>>)]

NormIdle ==
    /\ raw_lot = RawLot(<<>>)
    /\ normalized = NoResult
    /\ renormalized = NoResult
    /\ npc = "idle"

RankIdle ==
    /\ lots = <<>>
    /\ now_year = 0
    /\ scores = <<>>
    /\ title_scores = <<>>
    /\ year_scores = <<>>
    /\ ranked = <<>>
    /\ rpc = "idle"

CallIdle ==
    /\ callee = ""
    /\ args = <<>>
    /\ has_returned = FALSE
    /\ returned = <<>>

\* an empty table of a fresh database
DbIdle ==
    /\ table = <<>>
    /\ next_id = 1
    /\ clock = 1
    /\ use_postgres = FALSE
    /\ upsert_arg = <<>>
    /\ upsert_ret = "none"

CrawlIdle ==
    /\ scraper_idx = 1
    /\ crawl_log = <<>>
    /\ upsert_log = <<>>
    /\ total_lots = 0
    /\ successful_scrapers = 0
    /\ cpc = "idle"

FetchIdle ==
    /\ func = ""
    /\ max_retries = 0
    /\ base_delay = 0
    /\ max_delay = 0
    /\ robots = ""
    /\ side_effect = <<>>
    /\ attempt = 0
    /\ get_calls = 0
    /\ func_calls = 0
    /\ delays = <<>>
    /\ fetch_result = ""
    /\ fpc = "idle"

IoIdle == DbIdle /\ CrawlIdle /\ FetchIdle

-----------------------------------------------------------------------------
(* normalize_lot on raw records of every shape                             *)

\* the records that the variations start from: an empty record, the record
\* of test_normalize_basic_fields, and a record with text only
RawTemplates ==
    {RawLot(<<>>),
     RawLot([source |-> PyStr("test_source"), source_lot_id |-> PyStr("123"),
             make |-> PyStr("toyota"), model |-> PyStr("tacoma"),
             year |-> PyStr("2018"), vin |-> PyStr("ABCD123EFGH456789"),
             title_status |-> PyStr("clean")]),
     RawLot([source |-> PyStr("nyc_finance"), source_lot_id |-> PyStr("7"),
             location_state |-> PyStr("NY"),
             raw_text |-> PyStr("2018 Toyota Tacoma TRD Sport VIN: 1ABCD23EFGH456789 Clean title, runs great")])}

\* values of every type for a field read with .get(key, '').strip()
TextShapes == {Missing, PyNone, PyInt(7), PyStr(""), PyStr("  Hartford \n")}

VinShapes ==
    {Missing, PyNone, PyInt(12345), PyStr(""),
     PyStr("1ABCD23EFGH456789"), PyStr(" 1abcd23efgh456789 "),
     PyStr("1-ABCD-23-EFGH-456789"), PyStr("1ABCD23EFGH45678"),
     PyStr("1ABCD23EFGH4567890"), PyStr("1ABCD23EFGH45678I")}

YearShapes ==
    {Missing, PyNone, PyInt(2018), PyStr("2018"), PyStr("Model Year: 2019"),
     PyInt(1899), PyInt(1900), PyInt(2030), PyInt(2040), PyInt(0),
     PyStr("not a year"), PyStr("")}

MakeShapes ==
    {Missing, PyNone, PyInt(7), PyStr(""), PyStr("chevy"), PyStr("TOYOTA"),
     PyStr(" GMC "), PyStr("Unknown Make"), PyStr("o'neil mcx")}

ModelShapes ==
    {Missing, PyNone, PyInt(7), PyStr(""), PyStr("  land   cruiser "),
     PyStr("4runner"), PyStr("f-150 XLT")}

OdometerShapes ==
    {Missing, PyNone, PyInt(85000), PyStr("85,000 miles"),
     PyStr("Odometer: 125000"), PyStr("High mileage"), PyInt(-1000),
     PyInt(2000000), PyStr("2000000"), PyStr("")}

TitleShapes ==
    {Missing, PyNone, PyInt(5), PyStr(""), PyStr("Clean title"),
     PyStr("Salvage title"), PyStr("rebuilt"), PyStr("reconstructed"),
     PyStr("totaled"), PyStr("parts only"), PyStr("scrap"),
     PyStr("non runner"), PyStr("parts_only"), PyStr("Unknown"),
     PyStr("unclear")}

RawTextShapes ==
    {Missing, PyNone, PyInt(5), PyStr(""), PyStr("   "),
     PyStr("This car was totaled in accident"), PyStr("Rebuilt after damage"),
     PyStr("Parts only vehicle"), PyStr("2018 Toyota Tacoma TRD"),
     PyStr("vin 1abcd23efgh456789 here"),
     PyStr("I1ABCD23EFGH456789 and 12345678901234567"),
     PyStr("1999 ford f-150 xl and 2005 chevy\nsilverado"),
     PyStr("Lot 12: 2015 NISSAN FRONTIER 4x4, salvage"),
     PyStr("  junk 4runner \n"), PyStr("honda civic, good"),
     PyStr("toyota  "), PyStr("Toyota  (camry)"), PyStr("ford - ranger")}

DateShapes ==
    {Missing, PyNone, PyInt(5), PyStr(""), PyStr("garbage"),
     PyDatetime("2024-03-15T10:00:00")}
    \cup {PyStr(DateTexts[d].text) : d \in DOMAIN DateTexts}

TzShapes == {Missing, PyNone, PyInt(5), PyStr("America/Chicago")}

LotIdShapes == {Missing, PyNone, PyInt(123), PyStr(""), PyStr(" 12 ")}

Shapes(f) ==
    CASE f = "vin" -> VinShapes
      [] f = "year" -> YearShapes
      [] f = "make" -> MakeShapes
      [] f = "model" -> ModelShapes
      [] f = "odometer" -> OdometerShapes
      [] f = "title_status" -> TitleShapes
      [] f = "raw_text" -> RawTextShapes
      [] f = "sale_date_utc" -> DateShapes
      [] f = "tz_name" -> TzShapes
      [] f = "source_lot_id" -> LotIdShapes
      [] OTHER -> TextShapes

\* a template with one field set to a value of any shape
RawLots ==
    {[t EXCEPT ![f] = v] : <<t, f, v>> \in
        UNION {{<<t, f, v>> : v \in Shapes(f)} : <<t, f>> \in RawTemplates \X FieldNames}}

InitNormalize ==
    /\ raw_lot \in RawLots
    /\ normalized = NoResult
    /\ renormalized = NoResult
    /\ npc = "start"
    /\ RankIdle
    /\ CallIdle
    /\ IoIdle

\* normalized = lot_normalizer.normalize_lot(raw_lot)
NormalizeLot ==
    /\ npc = "start"
    /\ normalized' = normalize_lot(raw_lot)
    /\ npc' = IF normalized'.exc = "" THEN "normalized" ELSE "raised"
    /\ UNCHANGED <<raw_lot, renormalized, rank_vars, call_vars, io_vars>>

\* renormalized = lot_normalizer.normalize_lot(normalized)
NormalizeAgain ==
    /\ npc = "normalized"
    /\ renormalized' = normalize_lot(normalized.lot)
    /\ npc' = IF renormalized'.exc = "" THEN "renormalized" ELSE "raised again"
    /\ UNCHANGED <<raw_lot, normalized, rank_vars, call_vars, io_vars>>

NextNormalize == NormalizeLot \/ NormalizeAgain

SpecNormalize == InitNormalize /\ [][NextNormalize]_vars

\* C1: normalize_lot returns a normalized lot and never raises, whatever
\* the shape of the raw record
C1_NormalizeNeverRaises == normalized.exc = ""

\* C2: normalize_lot called on its own output returns that output unchanged,
\* field by field
C2_NormalizeIdempotent ==
    npc \in {"renormalized", "raised again"} => renormalized = normalized

-----------------------------------------------------------------------------
(* score_lot and rank_lots on lists of lots                                *)

MaxLots == 3
MaxAge == 32
FutureYears == 1

NowYears == {2026}

RankKeys == {"vin", "make", "model", "raw_text", "title_status", "year", "score"}

RankLot(entries) ==
    [f \in RankKeys |-> IF f \in DOMAIN entries THEN entries[f] ELSE Missing]

\* make, model and raw_text: one text for every category, texts without a
\* match and a text with two categories
Vehicles ==
    {[make |-> PyStr("Toyota"), model |-> PyStr("Land Cruiser"),
      raw_text |-> PyStr("2018 Toyota Land Cruiser")],
     [make |-> PyStr("Toyota"), model |-> PyStr("4Runner"),
      raw_text |-> PyStr("2019 Toyota 4Runner TRD Pro")],
     [make |-> PyStr("Toyota"), model |-> PyStr("Tacoma"),
      raw_text |-> PyStr("2018 Toyota Tacoma")],
     [make |-> PyStr("Nissan"), model |-> PyStr("Frontier"),
      raw_text |-> PyStr("2019 Nissan Frontier")],
     [make |-> Missing, model |-> Missing,
      raw_text |-> PyStr("Roadtrek class b van")],
     [make |-> PyStr(""), model |-> PyStr(""),
      raw_text |-> PyStr("Casita teardrop")],
     [make |-> PyStr("Honda"), model |-> PyStr("Civic"),
      raw_text |-> PyStr("2018 Honda Civic EX")],
     [make |-> PyNone, model |-> PyNone, raw_text |-> Missing],
     [make |-> PyStr("Nissan"), model |-> PyStr("Titan"),
      raw_text |-> PyStr("Titan, Tacoma bed")]}

TitleStatuses ==
    {PyStr("clean"), PyStr("rebuilt"), PyStr("salvage"), PyStr("parts_only"),
     PyStr("unknown"), Missing, PyNone, PyStr("Clean"), PyStr("")}

\* the years from MaxAge years ago to FutureYears years ahead
YearRange(now) == {PyInt(y) : y \in (now - MaxAge)..(now + FutureYears)}

\* no year, a year as _extract_from_raw_text sets it, this year, a past year
YearKinds(now) == {Missing, PyNone, PyInt(20), PyInt(now), PyInt(now - 8)}

ShapedLot(v, t, y) ==
    RankLot([make |-> v.make, model |-> v.model, raw_text |-> v.raw_text,
             title_status |-> t, year |-> y])

\* every vehicle with every title status, and every year for the vehicles
\* of test_rank_lots
LotShapes(now) ==
    {ShapedLot(v, t, y) : <<v, t, y>> \in Vehicles \X TitleStatuses \X YearKinds(now)}
    \cup {ShapedLot(v, t, y) : <<v, t, y>> \in
            {w \in Vehicles : w.model \in {PyStr("Land Cruiser"), PyStr("Tacoma"),
                                           PyStr("Civic")}}
            \X {PyStr("clean"), PyStr("salvage"), Missing} \X YearRange(now)}

Tacoma(vin, title_status, year) ==
    RankLot([vin |-> vin, make |-> PyStr("Toyota"), model |-> PyStr("Tacoma"),
             raw_text |-> PyStr("Toyota Tacoma"), title_status |-> PyStr(title_status),
             year |-> PyInt(year)])

\* a score of 0.5 that a lot carries from an earlier ranking
StaleScore == ScoreOne \div 2

\* the lots of test_vin_deduplication and test_rank_lots, with and without
\* a VIN, some with equal scores, one without a match, one that carries a
\* score already
RankPool ==
    {Tacoma(PyStr("1ABCD23EFGH456789"), "clean", 2018),
     Tacoma(PyStr("1ABCD23EFGH456789"), "salvage", 2018),
     Tacoma(PyStr(""), "clean", 2018),
     Tacoma(PyNone, "salvage", 2018),
     RankLot([vin |-> PyStr("2WXYZ98KLMN123456"), make |-> PyStr("Nissan"),
              model |-> PyStr("Frontier"), raw_text |-> PyStr("Nissan Frontier"),
              title_status |-> PyStr("clean"), year |-> PyInt(2019)]),
     RankLot([make |-> PyStr("Toyota"), model |-> PyStr("Land Cruiser"),
              raw_text |-> PyStr("Land Cruiser"),
              title_status |-> PyStr("clean"), year |-> PyInt(2018),
              score |-> PyFloat(StaleScore)]),
     RankLot([vin |-> PyStr("2WXYZ98KLMN123456"), make |-> PyStr("Honda"),
              model |-> PyStr("Civic"), raw_text |-> PyStr("Honda Civic"),
              title_status |-> PyStr("clean"), year |-> PyInt(2018)])}

RECURSIVE ListsOver(_, _)
\* the lists of n elements of S
ListsOver(S, n) ==
    IF n = 0 THEN {<<>>}
    ELSE {Append(l, x) : <<l, x>> \in ListsOver(S, n - 1) \X S}

InitRank ==
    /\ now_year \in NowYears
    /\ lots \in {<<l>> : l \in LotShapes(now_year)}
                \cup UNION {ListsOver(RankPool, n) : n \in 0..MaxLots}
    /\ scores = <<>>
    /\ title_scores = <<>>
    /\ year_scores = <<>>
    /\ ranked = <<>>
    /\ rpc = "start"
    /\ NormIdle
    /\ CallIdle
    /\ IoIdle

\* score_lot(lot) for every lot of the list
ScoreLot ==
    /\ rpc = "start"
    /\ scores' = [x \in 1..Len(lots) |-> score_lot(lots[x], now_year)]
    /\ rpc' = "scored"
    /\ UNCHANGED <<lots, now_year, title_scores, year_scores, ranked,
                   norm_vars, call_vars, io_vars>>


\* the title statuses from the least to the most severe
Severity == <<"clean", "rebuilt", "salvage", "parts_only">>

\* as test_title_status_penalties: score_lot of the first lot with its
\* title_status replaced by each status in turn
ScoreTitleVariants ==
    /\ rpc = "scored"
    /\ Len(lots) >= 1
    /\ title_scores' =
          [x \in 1..Len(Severity) |->
             score_lot([lots[1] EXCEPT !["title_status"] = PyStr(Severity[x])],
                       now_year)]
    /\ rpc' = "compared"
    /\ UNCHANGED <<lots, now_year, scores, year_scores, ranked,
                   norm_vars, call_vars, io_vars>>

\* ranked = lot_ranker.rank_lots(lots)
RankLots ==
    /\ rpc = "scored"
    /\ ranked' = rank_lots(lots, now_year)
    /\ lots' = [x \in 1..Len(lots) |-> InputLotAfter(lots[x], scores[x])]
    /\ rpc' = "ranked"
    /\ UNCHANGED <<now_year, scores, title_scores, year_scores,
                   norm_vars, call_vars, io_vars>>

NextRank == ScoreLot \/ ScoreTitleVariants \/ RankLots

SpecRank == InitRank /\ [][NextRank]_vars

Positive == {x \in 1..Len(lots) : scores[x] > 0}

VinOf(x) == Get(lots[x], "vin", PyNone)

\* the places of the returned list that hold the copy of input lot x
PlacesOf(x) == {k \in 1..Len(ranked) : ranked[k].src = x}

ScoreAt(k) == ranked[k].lot["score"].n

\* C6: among the positive-scoring lots that share a non-empty VIN exactly
\* one is returned and it has the highest score of the group; every
\* positive-scoring lot without a VIN is returned
C6_DedupByVin ==
    rpc = "ranked" =>
      /\ \A x \in Positive :
           Truthy(VinOf(x)) =>
             LET group == {y \in Positive : VinOf(y) = VinOf(x)}
                 places == UNION {PlacesOf(y) : y \in group}
             IN /\ Cardinality(places) = 1
                /\ \A k \in places : \A y \in group : ScoreAt(k) >= scores[y]
                /\ \A k \in places : ScoreAt(k) = scores[ranked[k].src]
      /\ \A x \in Positive : ~Truthy(VinOf(x)) => Cardinality(PlacesOf(x)) = 1

\* two lots of one VIN with different scores, the better one second, next
\* to a lot without a VIN
C6_Witness ==
    /\ rpc = "ranked"
    /\ \E x, y \in Positive :
         /\ x < y /\ Truthy(VinOf(x)) /\ VinOf(x) = VinOf(y)
         /\ scores[x] < scores[y]
         /\ PlacesOf(x) = {} /\ PlacesOf(y) # {}
    /\ \E x \in Positive : ~Truthy(VinOf(x)) /\ PlacesOf(x) # {}

\* C7: the returned list is in non-increasing order of score
C7_SortedByScore ==
    rpc = "ranked" =>
      \A k \in 1..(Len(ranked) - 1) : ScoreAt(k) >= ScoreAt(k + 1)

\* a lot is returned ahead of a lot that came before it in the input
C7_Witness ==
    /\ rpc = "ranked"
    /\ \E k \in 1..(Len(ranked) - 1) :
         ranked[k].src > ranked[k + 1].src /\ ScoreAt(k) > ScoreAt(k + 1)

HasMatch(l) == has_target_match(search_text(l))

\* C8: a lot scores 0 and is left out of the returned list exactly when its
\* text matches no category; a lot with a match scores more than 0; every
\* returned lot has a match and a score in (0, 1]
C8_ZeroIffNoMatch ==
    /\ rpc \in {"scored", "ranked"} =>
         \A x \in 1..Len(lots) : HasMatch(lots[x]) <=> scores[x] > 0
    /\ rpc = "ranked" =>
         /\ \A x \in 1..Len(lots) :
              (scores[x] = 0 /\ PlacesOf(x) = {}) <=> ~HasMatch(lots[x])
         /\ \A k \in 1..Len(ranked) :
              /\ HasMatch(lots[ranked[k].src])
              /\ 0 < ScoreAt(k) /\ ScoreAt(k) <= ScoreOne

\* a list with a returned parts_only lot and a lot left out
C8_Witness ==
    /\ rpc = "ranked"
    /\ \E x \in 1..Len(lots) : scores[x] = 0 /\ PlacesOf(x) = {}
    /\ \E x \in 1..Len(lots) : scores[x] > 0 /\ PlacesOf(x) # {}

\* the penalties as the claim states them, in hundredths
ClaimedTitlePenalty(l) ==
    LET ts == Get(l, "title_status", Missing)
    IN CASE ts = PyStr("clean") -> 0
         [] ts = PyStr("rebuilt") -> 5
         [] ts = PyStr("salvage") -> 20
         [] ts = PyStr("parts_only") -> 60
         [] OTHER -> 10

ClaimedAgePenalty(l) ==
    LET y == Get(l, "year", Missing)
    IN IF y.t # "int" THEN 10
       ELSE IF y.n >= now_year THEN 0
       ELSE IF now_year - y.n < 30 THEN now_year - y.n ELSE 30

\* the highest score among the categories whose regex matches the text
ClaimedBase(l) ==
    SetMax({patterns[c].score : c \in
              {d \in DOMAIN patterns : Search(patterns[d].regex, lower(search_text(l)))}})

C10_TitleMonotone ==
    (rpc = "compared" /\ HasMatch(lots[1])) =>
      /\ \A x \in 1..(Len(Severity) - 1) : title_scores[x] >= title_scores[x + 1]
      /\ title_scores[Len(Severity)] > 0

C10_Witness ==
    /\ rpc = "compared" /\ HasMatch(lots[1])
    /\ title_scores[1] > title_scores[2]
    /\ title_scores[2] > title_scores[3]
    /\ title_scores[3] > title_scores[4]

\* C25: lots of equal score are returned in their input order: of two
\* returned lots with the same score, the one that came first in the input
\* comes first in the output, with or without VINs
C25_EqualScoresKeepOrder ==
    rpc = "ranked" =>
      \A k, l \in 1..Len(ranked) :
         (k < l /\ ScoreAt(k) = ScoreAt(l)) => ranked[k].src < ranked[l].src

\* rank_lots returns
RankStep == rpc = "scored" /\ rpc' = "ranked"

-----------------------------------------------------------------------------
(* score_lot of one lot under every year                                   *)

\* the years of the comparison: from MaxAge years ago to FutureYears years
\* ahead, the oldest year a normalized lot can have, and a year as
\* _extract_from_raw_text sets it
AgeYears(now) ==
    ((now - MaxAge)..(now + FutureYears)) \cup {MinYear, 20}

InitAge ==
    /\ now_year \in NowYears
    /\ lots \in {<<ShapedLot(v, t, PyInt(now_year))>> :
                    <<v, t>> \in Vehicles \X TitleStatuses}
    /\ scores = <<>>
    /\ title_scores = <<>>
    /\ year_scores = <<>>
    /\ ranked = <<>>
    /\ rpc = "start"
    /\ NormIdle
    /\ CallIdle
    /\ IoIdle

\* as test_age_penalties: score_lot of the lot with its year replaced by
\* each year in turn
ScoreYearVariants ==
    /\ rpc = "start"
    /\ year_scores' =
          [y \in AgeYears(now_year) |->
             score_lot([lots[1] EXCEPT !["year"] = PyInt(y)], now_year)]
    /\ rpc' = "aged"
    /\ UNCHANGED <<lots, now_year, scores, title_scores, ranked,
                   norm_vars, call_vars, io_vars>>

NextAge == ScoreYearVariants

SpecAge == InitAge /\ [][NextAge]_vars

-----------------------------------------------------------------------------
(* upsert_lot calls on one database                                        *)

MaxUpserts == 3

Lot(source, source_lot_id) ==
    ("source" :> source) @@ ("source_lot_id" :> source_lot_id)

\* the records handed to upsert_lot: new pairs and stored ones, with more
\* and with fewer columns, a pair given as an int, dates that are ISO text
\* and one that is not, a key that is no column, and records without the
\* pair
LotDatas ==
    { Lot(PyStr("ct"), PyStr("1")) @@ ("make" :> PyStr("Toyota"))
        @@ ("model" :> PyStr("Tacoma")) @@ ("year" :> PyInt(2018))
        @@ ("location_state" :> PyStr("CT")),
      Lot(PyStr("ct"), PyStr("1")) @@ ("model" :> PyStr("Tundra"))
        @@ ("title_status" :> PyStr("salvage")),
      Lot(PyStr("ct"), PyStr("1")) @@ ("year" :> PyNone)
        @@ ("sale_date_utc" :> PyStr(DateTexts.us.text)),
      Lot(PyStr("ct"), PyStr("2"))
        @@ ("sale_date_utc" :> PyStr(DateTexts.us.text)),
      Lot(PyStr("ny"), PyStr("1"))
        @@ ("sale_date_utc" :> PyStr(DateTexts.iso.text)),
      Lot(PyStr("ny"), PyInt(1)) @@ ("make" :> PyStr("Nissan")),
      Lot(PyStr("ri"), PyStr("1")) @@ ("bid_count" :> PyInt(3)),
      Lot(PyStr(""), PyStr("5")),
      Lot(PyStr("ct"), PyNone),
      Lot(PyStr("ct"), PyStr("")),
      ("source_lot_id" :> PyStr("5")) @@ ("make" :> PyStr("Toyota")) }

InitDb ==
    /\ table = <<>>
    /\ next_id = 1
    /\ clock = 1
    /\ use_postgres \in BOOLEAN
    /\ upsert_arg = <<>>
    /\ upsert_ret = "none"
    /\ NormIdle
    /\ RankIdle
    /\ CallIdle
    /\ CrawlIdle
    /\ FetchIdle

\* db.upsert_lot(lot_data)
UpsertLot ==
    /\ clock <= MaxUpserts
    /\ \E lot_data \in LotDatas :
         LET done == upsert_lot(table, next_id, lot_data, use_postgres, clock)
         IN /\ table' = done.table
            /\ next_id' = done.next_id
            /\ upsert_arg' = lot_data
            /\ upsert_ret' = BoolStr(done.ret)
    /\ clock' = clock + 1
    /\ UNCHANGED <<use_postgres, norm_vars, rank_vars, call_vars, crawl_vars, fetch_vars>>

NextDb == UpsertLot

SpecDb == InitDb /\ [][NextDb]_vars

\* the rows of a table that hold the pair of lot_data
RowsOfPair(rows, lot_data) ==
    {x \in 1..Len(rows) :
       /\ rows[x]["source"].s = pystr(lot_data["source"])
       /\ rows[x]["source_lot_id"].s = pystr(lot_data["source_lot_id"])}

\* the columns of lot_data that upsert_lot stores as they are supplied:
\* all but the pair, updated_at, and under PostgreSQL a sale_date_utc that is
\* no ISO text
StoredAsSupplied(lot_data) ==
    {c \in DOMAIN lot_data \ {"source", "source_lot_id", "updated_at"} :
       ~(/\ c = "sale_date_utc" /\ use_postgres /\ lot_data[c].t = "str"
         /\ lot_data[c].s # "" /\ ~IsIsoText(lot_data[c].s))}

\* a supplied sale_date_utc that is not stored as supplied is stored as NULL
SuppliedOrNull(row, lot_data) ==
    /\ \A c \in StoredAsSupplied(lot_data) : row[c] = lot_data[c]
    /\ ("sale_date_utc" \in DOMAIN lot_data \ StoredAsSupplied(lot_data))
         => row["sale_date_utc"] = PyNone

\* what one upsert_lot call does to the table
UpsertStep ==
    LET d == upsert_arg'
        old == RowsOfPair(table, d)
    IN /\ \A x, y \in 1..Len(table') :
            (/\ table'[x]["source"] = table'[y]["source"]
             /\ table'[x]["source_lot_id"] = table'[y]["source_lot_id"]) => x = y
       /\ upsert_ret' = "False" => table' = table
       /\ (upsert_ret' = "True" /\ old # {}) =>
            /\ Len(table') = Len(table)
            /\ \A x \in 1..Len(table) :
                 IF x \in old
                 THEN /\ SuppliedOrNull(table'[x], d)
                      /\ \A c \in TableColumns \ (DOMAIN d \cup {"updated_at"}) :
                           table'[x][c] = table[x][c]
                      /\ table'[x]["updated_at"] = PyInt(clock)
                 ELSE table'[x] = table[x]
       /\ (upsert_ret' = "True" /\ old = {}) =>
            /\ Len(table') = Len(table) + 1
            /\ SubSeq(table', 1, Len(table)) = table
            /\ RowsOfPair(table', d) = {Len(table')}
            /\ SuppliedOrNull(table'[Len(table')], d)

\* C3: every upsert_lot call leaves at most one row per (source,
\* source_lot_id) pair: a call that succeeds on a stored pair writes the
\* supplied columns to that row, leaves the other columns and the other rows
\* alone and adds no row; a call that succeeds on a new pair adds exactly one
\* row, which holds the pair and the supplied columns; a call that returns
\* False leaves the table as it was
C3_UpsertKeepsPairsUnique == [][UpsertStep]_vars

\* a second row was added and a stored row was updated after it was added
C3_Witness ==
    /\ upsert_ret = "True"
    /\ Len(table) >= 2
    /\ \E x \in 1..Len(table) :
         table[x]["updated_at"].n > table[x]["created_at"].n

\* source or source_lot_id is no key of lot_data, or is None or ''
RequiredEmpty(lot_data) ==
    \E k \in {"source", "source_lot_id"} :
       k \notin DOMAIN lot_data \/ lot_data[k] \in {PyNone, PyStr("")}

RejectStep ==
    (clock' = clock + 1 /\ RequiredEmpty(upsert_arg')) =>
       /\ upsert_ret' = "False"
       /\ table' = table

\* C28: an upsert_lot call with a lot whose source or source_lot_id is
\* missing or empty returns False and leaves the table as it was: no row is
\* inserted and no row is updated
C28_MissingKeysRejected == [][RejectStep]_vars

\* a call without the pair was refused on a table that holds rows
C28_Witness ==
    /\ upsert_ret = "False"
    /\ RequiredEmpty(upsert_arg)
    /\ Len(table) >= 1

-----------------------------------------------------------------------------
(* crawl_sources over the scrapers of the registry                         *)

NumScrapers == 3

\* get_all_scrapers(), by source name
AllScrapers ==
    <<"nyc_finance", "ct_state_surplus", "ct_statewide_auction",
      "ma_state_surplus", "nj_state_surplus", "nj_south_jersey_auction",
      "nj_adesa_auction", "ny_state_surplus", "ri_state_surplus",
      "public_surplus", "gsa_auctions", "abetter_bid_northeast">>

scrapers == SubSeq(AllScrapers, 1, NumScrapers)

\* raw lots of a scraper: a target vehicle, a vehicle that is no target,
\* a target vehicle outside the target states, a lot with a key that is no
\* column of the table
TargetLot(name, id) ==
    Lot(PyStr(name), PyStr(id)) @@ ("location_state" :> PyStr("CT"))
      @@ ("make" :> PyStr("Toyota")) @@ ("model" :> PyStr("Tacoma"))
      @@ ("year" :> PyInt(2018))

OtherLot(name, id) ==
    Lot(PyStr(name), PyStr(id)) @@ ("location_state" :> PyStr("ny"))
      @@ ("make" :> PyStr("Honda")) @@ ("model" :> PyNone)
      @@ ("raw_text" :> PyStr("Honda Civic"))

FarLot(name, id) ==
    Lot(PyStr(name), PyStr(id)) @@ ("location_state" :> PyStr("FL"))
      @@ ("make" :> PyStr("Toyota")) @@ ("model" :> PyStr("Tacoma"))

BidLot(name, id) ==
    Lot(PyStr(name), PyStr(id)) @@ ("location_state" :> PyStr("RI"))
      @@ ("raw_text" :> PyStr("camper")) @@ ("bid_count" :> PyInt(3))

\* what crawl() of a scraper can return
CrawlLists(name) ==
    { <<>>,
      <<TargetLot(name, "1")>>,
      <<TargetLot(name, "1"), OtherLot(name, "2")>>,
      <<FarLot(name, "1"), BidLot(name, "2"), OtherLot(name, "1")>> }

\* the table before the run: empty, or with the row an earlier run stored
\* for the first scraper
StoredBefore ==
    { <<>>, <<NewRow(TargetLot(AllScrapers[1], "1") @@ ("updated_at" :> PyInt(0)),
                     1, 0)>> }

InitCrawl ==
    /\ table \in StoredBefore
    /\ next_id = Len(table) + 1
    /\ clock = 1
    /\ use_postgres \in BOOLEAN
    /\ upsert_arg = <<>>
    /\ upsert_ret = "none"
    /\ scraper_idx = 1
    /\ crawl_log = <<>>
    /\ upsert_log = <<>>
    /\ total_lots = 0
    /\ successful_scrapers = 0
    /\ cpc = "loop"
    /\ NormIdle
    /\ RankIdle
    /\ CallIdle
    /\ FetchIdle

Called(outcome, raw_lots) ==
    [scraper |-> scraper_idx, outcome |-> outcome, lots |-> raw_lots]

\* scraper.crawl() returns raw_lots; every one of them goes to upsert_lot
CrawlReturns ==
    /\ cpc = "loop"
    /\ scraper_idx <= Len(scrapers)
    /\ \E raw_lots \in CrawlLists(scrapers[scraper_idx]) :
         LET st == ProcessLots([table |-> table, next_id |-> next_id,
                                clock |-> clock, processed_lots |-> 0,
                                target_lots |-> 0, log |-> <<>>],
                               raw_lots, 1, scraper_idx, use_postgres)
         IN /\ table' = st.table
            /\ next_id' = st.next_id
            /\ clock' = st.clock
            /\ upsert_log' = upsert_log \o st.log
            /\ upsert_arg' = IF st.log = <<>> THEN upsert_arg
                             ELSE st.log[Len(st.log)].lot
            /\ upsert_ret' = IF st.log = <<>> THEN upsert_ret
                             ELSE st.log[Len(st.log)].ret
            /\ total_lots' = total_lots + st.processed_lots
            /\ crawl_log' = Append(crawl_log, Called("returned", raw_lots))
    /\ successful_scrapers' = successful_scrapers + 1
    /\ scraper_idx' = scraper_idx + 1
    /\ UNCHANGED <<use_postgres, cpc, norm_vars, rank_vars, call_vars, fetch_vars>>

\* an exception leaves crawl_sources
CrawlRaises_abort ==
    /\ cpc = "loop"
    /\ scraper_idx <= Len(scrapers)
    /\ crawl_log' = Append(crawl_log, Called("Exception", <<>>))
    /\ cpc' = "done"
    /\ UNCHANGED <<scraper_idx, db_vars, upsert_log, total_lots,
                   successful_scrapers, norm_vars, rank_vars, call_vars, fetch_vars>>

\* scraper.crawl() raises an Exception: logged, on to the next scraper
CrawlRaises ==
    /\ cpc = "loop"
    /\ scraper_idx <= Len(scrapers)
    /\ crawl_log' = Append(crawl_log, Called("Exception", <<>>))
    /\ scraper_idx' = scraper_idx + 1
    /\ UNCHANGED <<db_vars, upsert_log, total_lots, successful_scrapers, cpc,
                   norm_vars, rank_vars, call_vars, fetch_vars>>

\* the alarm of timeout(120) raises TimeoutError inside scraper.crawl()
CrawlTimesOut ==
    /\ cpc = "loop"
    /\ scraper_idx <= Len(scrapers)
    /\ crawl_log' = Append(crawl_log, Called("TimeoutError", <<>>))
    /\ scraper_idx' = scraper_idx + 1
    /\ UNCHANGED <<db_vars, upsert_log, total_lots, successful_scrapers, cpc,
                   norm_vars, rank_vars, call_vars, fetch_vars>>

\* the loop is over
CrawlDone ==
    /\ cpc = "loop"
    /\ scraper_idx > Len(scrapers)
    /\ cpc' = "done"
    /\ UNCHANGED <<scraper_idx, db_vars, crawl_log, upsert_log, total_lots,
                   successful_scrapers, norm_vars, rank_vars, call_vars, fetch_vars>>

NextCrawl == CrawlReturns \/ CrawlRaises \/ CrawlTimesOut \/ CrawlDone

SpecCrawl == InitCrawl /\ [][NextCrawl]_vars

\* the upsert_lot calls made for the lots of scraper x, in the order made
UpsertsOf(x) == SelectSeq(upsert_log, LAMBDA u : u.scraper = x)

\* the rows of the table with the source of scraper x
RowsOfSource(x) ==
    {y \in 1..Len(table) : table[y]["source"] = PyStr(scrapers[x])}

\* C4: crawl() is called on every scraper, once and in the order of the
\* registry, whatever the earlier calls did; when crawl_sources is done it
\* was called on all of them; a scraper whose crawl raised or timed out has
\* no lot handed to upsert_lot and no row written; every lot of a scraper
\* whose crawl returned was handed to upsert_lot, in order, and is in the
\* table when upsert_lot took it
C4_EveryScraperCrawled ==
    /\ \A x \in 1..Len(crawl_log) : crawl_log[x].scraper = x
    /\ cpc = "done" => Len(crawl_log) = Len(scrapers)
    /\ \A x \in 1..Len(crawl_log) :
         IF crawl_log[x].outcome = "returned"
         THEN /\ Len(UpsertsOf(x)) = Len(crawl_log[x].lots)
              /\ \A y \in 1..Len(crawl_log[x].lots) :
                   /\ UpsertsOf(x)[y].lot = crawl_log[x].lots[y]
                   /\ UpsertsOf(x)[y].ret = "True" =>
                        RowsOfPair(table, crawl_log[x].lots[y]) # {}
         ELSE /\ UpsertsOf(x) = <<>>
              /\ \A y \in RowsOfSource(x) : table[y]["updated_at"] = PyInt(0)

\* crawl_sources is done; the first crawl raised, the second timed out and
\* the lots of the third are stored
C4_Witness ==
    /\ cpc = "done"
    /\ Len(crawl_log) >= 3
    /\ crawl_log[1].outcome = "Exception"
    /\ crawl_log[2].outcome = "TimeoutError"
    /\ crawl_log[3].outcome = "returned"
    /\ RowsOfSource(3) # {}
    /\ successful_scrapers = 1

-----------------------------------------------------------------------------
(* calls under retry_with_backoff                                          *)

MaxRetries == 4

\* what session.get does, call by call
GetEffects == [1..safe_get_retries -> RequestErrors \cup {"response"}]

\* what the calls of another wrapped function do
FuncEffects == [1..MaxRetries -> {"raise", "return"}]

InitFetch ==
    /\ \/ /\ func = "safe_get"
          /\ max_retries = safe_get_retries
          /\ base_delay = default_base_delay
          /\ max_delay = default_max_delay
          /\ robots \in {"off", "allowed", "blocked", "unreadable"}
          /\ side_effect \in GetEffects
       \/ /\ func = "other"
          /\ max_retries \in 0..MaxRetries
          /\ base_delay \in {default_base_delay, 20}
          /\ max_delay = default_max_delay
          /\ robots = ""
          /\ side_effect \in FuncEffects
    /\ attempt = 0
    /\ get_calls = 0
    /\ func_calls = 0
    /\ delays = <<>>
    /\ fetch_result = ""
    /\ fpc = "calling"
    /\ NormIdle
    /\ RankIdle
    /\ CallIdle
    /\ DbIdle
    /\ CrawlIdle

\* func(*args, **kwargs) of this attempt
Call ==
    IF func = "safe_get" THEN safe_get(robots, side_effect, get_calls)
    ELSE other_func(side_effect, func_calls)

FetchFrame ==
    UNCHANGED <<func, max_retries, base_delay, max_delay, robots, side_effect,
                norm_vars, rank_vars, call_vars, db_vars, crawl_vars>>

\* the call returns and the wrapper returns its value
CallReturns ==
    /\ fpc = "calling"
    /\ attempt < max_retries
    /\ ~Call.raised
    /\ fetch_result' = Call.result
    /\ get_calls' = Call.get_calls
    /\ func_calls' = func_calls + 1
    /\ fpc' = "returned"
    /\ UNCHANGED <<attempt, delays>>
    /\ FetchFrame

\* the call raises before the last attempt: the wrapper sleeps
CallRaises ==
    /\ fpc = "calling"
    /\ attempt < max_retries
    /\ Call.raised
    /\ attempt # max_retries - 1
    /\ delays' = Append(delays, Delay(base_delay, attempt, max_delay))
    /\ get_calls' = Call.get_calls
    /\ func_calls' = func_calls + 1
    /\ fpc' = "sleeping"
    /\ UNCHANGED <<attempt, fetch_result>>
    /\ FetchFrame

\* time.sleep(delay) is over: the next attempt
Sleep ==
    /\ fpc = "sleeping"
    /\ attempt' = attempt + 1
    /\ fpc' = "calling"
    /\ UNCHANGED <<get_calls, func_calls, delays, fetch_result>>
    /\ FetchFrame

\* the call raises on the last attempt: the wrapper raises
CallRaisesLast ==
    /\ fpc = "calling"
    /\ attempt < max_retries
    /\ Call.raised
    /\ attempt = max_retries - 1
    /\ fetch_result' = "raise"
    /\ get_calls' = Call.get_calls
    /\ func_calls' = func_calls + 1
    /\ fpc' = "raised"
    /\ UNCHANGED <<attempt, delays>>
    /\ FetchFrame

\* range(max_retries) is empty: the wrapper returns None
NoAttempt ==
    /\ fpc = "calling"
    /\ attempt >= max_retries
    /\ fetch_result' = "None"
    /\ fpc' = "returned"
    /\ UNCHANGED <<attempt, get_calls, func_calls, delays>>
    /\ FetchFrame

NextFetch == CallReturns \/ CallRaises \/ Sleep \/ CallRaisesLast \/ NoAttempt

SpecFetch == InitFetch /\ [][NextFetch]_vars

\* C5: when the first session.get of a safe_get call raises a request
\* exception and the second would succeed, safe_get returns the response
\* and session.get was called exactly twice
C5_SafeGetRetries ==
    (/\ func = "safe_get"
     /\ check_robots_txt(robots)
     /\ side_effect[1] = "RequestException"
     /\ side_effect[2] = "response"
     /\ fpc \in {"returned", "raised"})
    => (fetch_result = "response" /\ get_calls = 2)

\* the calls of the wrapped function so far all raised, but for the last
\* one when it returned
RaisedUntil(last_returned) ==
    \A j \in 1..func_calls :
       side_effect[j] = IF j = func_calls /\ last_returned THEN "return"
                        ELSE "raise"

\* C26: a function wrapped by retry_with_backoff(max_retries=n) is called
\* at most n times per call of the wrapper; the wrapper returns the first
\* result with no call after it; before the retry that follows failed
\* attempt k (from 0) it waits min(base_delay * 2^k, max_delay); when all n
\* attempts raise it raises the last exception without another wait
C26_RetryWithBackoff ==
    func = "other" =>
      /\ func_calls <= max_retries
      /\ \A k \in 1..Len(delays) :
            delays[k] = Min(base_delay * 2^(k - 1), max_delay)
      /\ (fpc = "returned" /\ max_retries > 0)
            => /\ fetch_result = "return"
               /\ RaisedUntil(TRUE)
               /\ Len(delays) = func_calls - 1
      /\ fpc = "raised"
            => /\ func_calls = max_retries
               /\ RaisedUntil(FALSE)
               /\ Len(delays) = max_retries - 1

\* every attempt raised: the wrapper slept 20, 40 and then 60 seconds, the
\* cap, and raised after the last attempt
C26_Witness ==
    /\ func = "other"
    /\ fpc = "raised"
    /\ func_calls >= 4
    /\ SubSeq(delays, 1, 3) = <<20, 40, 60>>

-----------------------------------------------------------------------------
(* score_lot on two lots of one year, a salvage one and a clean one        *)

\* this year, eight years ago, and a year at the cap of the age penalty
PairYears(now) == {now, now - 8, now - MaxAge}

InitPairs ==
    /\ now_year \in NowYears
    /\ lots \in {<<ShapedLot(a, PyStr("salvage"), PyInt(y)),
                   ShapedLot(b, PyStr("clean"), PyInt(y))>> :
                    <<a, b, y>> \in Vehicles \X Vehicles \X PairYears(now_year)}
    /\ scores = <<>>
    /\ title_scores = <<>>
    /\ year_scores = <<>>
    /\ ranked = <<>>
    /\ rpc = "start"
    /\ NormIdle
    /\ CallIdle
    /\ IoIdle

NextPairs == ScoreLot

SpecPairs == InitPairs /\ [][NextPairs]_vars

\* the base score of the lot, in hundredths
BaseOf(x) == _get_keyword_score(lots[x])

-----------------------------------------------------------------------------
(* One call of a function of normalize.py or keywords.py                   *)

\* the VIN of test_vin_normalization
TestVin == "1ABCD23EFGH456789"

\* characters of every kind: of the VIN alphabet, I, O and Q, lower-case
\* letters, separators
VinInputChars ==
    UpperChars \cup DigitChars \cup {"a", "i", "o", "q", "z", "-", " ", "_"}

Replaced(s, p, c) == SubSeq(s, 1, p - 1) \o c \o SubSeq(s, p + 1, Len(s))
Inserted(s, p, c) == SubSeq(s, 1, p) \o c \o SubSeq(s, p + 1, Len(s))

\* the inputs of test_vin_normalization, and TestVin with one character
\* replaced, one inserted or one removed at every place
VinInputs ==
    {"", TestVin, "1abcd23efgh456789", "1-ABCD-23-EFGH-456789",
     "1ABCD23EFGH45678", "1ABCD23EFGH4567890", "1ABCD23EFGH45678I"}
    \cup {Replaced(TestVin, p, c) : <<p, c>> \in (1..VinLen) \X VinInputChars}
    \cup {Inserted(TestVin, p, c) : <<p, c>> \in (0..VinLen) \X VinInputChars}
    \cup {Replaced(TestVin, p, "") : p \in 1..VinLen}

\* the inputs of test_odometer_normalization, and the ends of the range
OdometerInputs ==
    OdometerShapes
    \cup {PyInt(0), PyInt(-1), PyInt(MaxOdometer), PyInt(MaxOdometer + 1),
          PyStr("125000"), PyStr("0 miles"), PyStr("1000000"),
          PyStr("1000001 mi"), PyStr("-5"), PyStr("TMU"), PyStr("85000 miles")}

\* title_status and raw_text as normalize_lot passes them: stripped strings
TitleStatusInputs ==
    {<<PyStr(t), PyStr(r)>> : <<t, r>> \in
        {"", "Clean title", "Salvage title", "Unknown", "rebuilt",
         "parts only", "unclear", "Good", "junk"}
        \X {"", "This car was totaled in accident", "Rebuilt after damage",
            "Parts only vehicle", "salvage, repaired, good runner",
            "non runner, clear title", "cleaner than most", "scrap or repaired"}}

\* values of vin, year, make and model that raw_text does not hold
OtherValues ==
    [vin |-> PyStr("2WXYZ98KLMN123456"), year |-> PyInt(2010),
     make |-> PyStr("Honda"), model |-> PyStr("Civic")]

ExtractedFields == DOMAIN OtherValues

\* a normalized lot that has the fields of the set present and the other
\* three as normalize_lot leaves them when the raw lot lacks them
PartialLot(present) ==
    [RawLot([source |-> PyStr("nyc_finance"), source_lot_id |-> PyStr("7"),
             location_state |-> PyStr("NY"), odometer |-> PyInt(85000),
             title_status |-> PyStr("clean")])
     EXCEPT !["vin"] = IF "vin" \in present THEN OtherValues.vin ELSE PyStr(""),
            !["year"] = IF "year" \in present THEN OtherValues.year ELSE PyNone,
            !["make"] = IF "make" \in present THEN OtherValues.make ELSE PyStr(""),
            !["model"] = IF "model" \in present THEN OtherValues.model ELSE PyStr("")]

ExtractTexts ==
    {"2018 Toyota Tacoma TRD Sport VIN: 1ABCD23EFGH456789 Clean title, runs great",
     "2018 Toyota Tacoma TRD", "vin 1abcd23efgh456789 here",
     "1999 ford f-150 xl and 2005 chevy\nsilverado",
     "Lot 12: 2015 NISSAN FRONTIER 4x4, salvage", "honda civic, good",
     "toyota  ", "no vehicle data", "1899 and 2100"}

\* the lot {} of test_extract_from_raw_text, and lots with every subset of
\* the four fields present, with every text
ExtractInputs ==
    ({RawLot(<<>>)} \cup {PartialLot(present) : present \in SUBSET ExtractedFields})
    \X ExtractTexts

\* the texts of tests/test_keywords.py, texts that a regex matches without
\* any listed keyword in them, and texts of several categories
KeywordTexts ==
    {"", "2018 Toyota Land Cruiser Heritage Edition",
     "LEXUS LANDCRUISER 200 SERIES", "Toyota LC 76 series",
     "2020 Land-Cruiser GXL", "2019 Toyota 4Runner TRD Pro",
     "Toyota 4-Runner SR5", "TOYOTA FOURRUNNER LIMITED",
     "2020 Toyota Tacoma TRD", "Toyota Tundra CrewMax",
     "Nissan Frontier King Cab", "2018 Nissan Titan XD",
     "2019 Winnebago Travato Class B", "Ford Transit Camper Conversion",
     "Mercedes Sprinter RV", "Travel Trailer 20ft",
     "Teardrop camper with tow hitch", "2020 Honda Civic EX",
     "Ford F-150 SuperCrew", "Chevrolet Silverado 1500", "BMW X5 xDrive35i",
     "Audi Q7 Premium Plus",
     "2018 Toyota Land Cruiser vs 4Runner comparison",
     "2020 Toyota 4Runner TRD Pro", "2018 Toyota Tacoma",
     "Land Cruiser for sale", "Class B RV Sprinter", "Honda Accord sedan",
     "Random text with no vehicles",
     "Land  Cruiser", "LX 570", "four runner", "Toyota Pickup",
     "nissan d21 pickup", "Small RV", "class b expandable", "pop-up",
     "R Pod trailer", "Titan, Tacoma bed", "Casita on a Tundra",
     "Roadtrek, teardrop, Frontier, T100, 4 runner, LC80",
     "LANDCRUISER", "LC 200", "Land-Cruiser", "lc200 diesel",
     "Chevrolet Silverado, stable idle", "Audi Q7, comfortable, no rust"}

\* location_state as the scrapers set it (a state code, 'Unknown'), in
\* lower case, empty and absent
LocationStates ==
    {PyStr("CT"), PyStr("NY"), PyStr("NJ"), PyStr("RI"), PyStr("MA"),
     PyStr("ME"), PyStr("Unknown"), PyStr("ct"), PyStr(""), Missing}

\* make, model and raw_text of lots that satisfy the criteria of no type, of
\* one type and of several types of different and of equal priority
TargetVehicleTexts ==
    { [make |-> PyStr("Toyota"), model |-> PyStr("4Runner"), raw_text |-> PyStr("")],
      [make |-> PyStr("Toyota"), model |-> PyStr("Land Cruiser"),
       raw_text |-> PyStr("Toyota 4Runner and Land Cruiser")],
      [make |-> PyStr("Toyota"), model |-> PyStr("Tacoma"),
       raw_text |-> PyStr("Tacoma with camper shell")],
      [make |-> PyStr("TOYOTA"), model |-> PyStr("Tundra"),
       raw_text |-> PyStr("tundra, tacoma and 4runner parts")],
      [make |-> PyStr("Lexus"), model |-> PyStr("LX570"),
       raw_text |-> PyStr("tows a travel trailer")],
      [make |-> PyStr("Nissan"), model |-> PyStr("Frontier"),
       raw_text |-> PyStr("Toyota Tacoma service truck")],
      [make |-> PyStr("Ford"), model |-> PyNone, raw_text |-> PyStr("Motorhome")],
      [make |-> PyStr("Honda"), model |-> PyStr("Civic"), raw_text |-> PyStr("")],
      [make |-> PyNone, model |-> PyNone, raw_text |-> PyStr("toyota tacoma")],
      [make |-> Missing, model |-> Missing, raw_text |-> Missing] }

TargetLots ==
    { RawLot([location_state |-> state, make |-> v.make, model |-> v.model,
              raw_text |-> v.raw_text, year |-> year]) :
        state \in LocationStates, v \in TargetVehicleTexts,
        year \in {PyNone, PyInt(2018)} }

CallInputs ==
    [_normalize_vin |-> {<<v>> : v \in VinInputs},
     _normalize_odometer |-> {<<o>> : o \in OdometerInputs},
     _normalize_title_status |-> TitleStatusInputs,
     _extract_from_raw_text |-> ExtractInputs,
     find_matches |-> {<<t>> : t \in KeywordTexts},
     get_best_match |-> {<<t>> : t \in KeywordTexts},
     has_target_match |-> {<<t>> : t \in KeywordTexts},
     is_target_vehicle |-> {<<lot>> : lot \in TargetLots}]

InitCalls ==
    /\ callee \in DOMAIN CallInputs
    /\ args \in CallInputs[callee]
    /\ has_returned = FALSE
    /\ returned = <<>>
    /\ NormIdle
    /\ RankIdle
    /\ IoIdle

\* the call returns (or raises, for _extract_from_raw_text) with the value
Returns(f, value) ==
    /\ callee = f
    /\ ~has_returned
    /\ has_returned' = TRUE
    /\ returned' = value
    /\ UNCHANGED <<callee, args, norm_vars, rank_vars, io_vars>>

NormalizeVin == Returns("_normalize_vin", _normalize_vin(args[1]))

NormalizeOdometer == Returns("_normalize_odometer", _normalize_odometer(args[1]))

NormalizeTitleStatus ==
    Returns("_normalize_title_status", _normalize_title_status(args[1], args[2]))

ExtractFromRawText ==
    Returns("_extract_from_raw_text", _extract_from_raw_text(args[1], args[2]))

FindMatches == Returns("find_matches", find_matches(args[1]))

GetBestMatch == Returns("get_best_match", get_best_match(args[1]))

HasTargetMatch == Returns("has_target_match", has_target_match(args[1]))

IsTargetVehicle == Returns("is_target_vehicle", is_target_vehicle(args[1]))

NextCalls ==
    \/ NormalizeVin
    \/ NormalizeOdometer
    \/ NormalizeTitleStatus
    \/ ExtractFromRawText
    \/ FindMatches
    \/ GetBestMatch
    \/ HasTargetMatch
    \/ IsTargetVehicle

SpecCalls == InitCalls /\ [][NextCalls]_vars

\* the call of f has returned
HasReturned(f) == callee = f /\ has_returned

\* letters and digits
AlnumChars == UpperChars \cup LowerChars \cup DigitChars

\* C12: _normalize_vin returns the input in upper case for every input of
\* 17 characters of the VIN alphabet, and "" for every input that does not
\* have exactly 17 letters and digits, an input of 18 letters and digits
\* with an I, O or Q among them included
C12_VinUpperOrEmpty ==
    HasReturned("_normalize_vin") =>
      /\ (Len(args[1]) = VinLen /\ CharsOf(upper(args[1])) \subseteq VinUpperChars)
            => returned = upper(args[1])
      /\ Len(filterChars(args[1], AlnumChars)) # VinLen => returned = ""

-----------------------------------------------------------------------------
(* The fields of the lots that normalize_lot returns                       *)

\* normalize_lot has returned a lot
Normalized == npc \in {"normalized", "renormalized", "raised again"}

\* C13: the vin of every lot that normalize_lot returns is "" or has
\* exactly 17 characters, all upper-case letters other than I, O, Q or
\* digits, also when it was taken from raw_text
C13_VinCanonical ==
    Normalized =>
      \/ normalized.lot["vin"] = PyStr("")
      \/ /\ normalized.lot["vin"].t = "str"
         /\ Len(normalized.lot["vin"].s) = VinLen
         /\ CharsOf(normalized.lot["vin"].s) \subseteq VinUpperChars

\* C14: the year of every lot that normalize_lot returns is None or an int
\* from 1900 to 2030, whatever the raw lot and its raw_text hold
C14_YearInRange ==
    Normalized =>
      \/ normalized.lot["year"] = PyNone
      \/ /\ normalized.lot["year"].t = "int"
         /\ YearInRange(normalized.lot["year"].n)

-----------------------------------------------------------------------------
(* _extract_from_raw_text                                                  *)

\* the raw_text of test_extract_from_raw_text
TestRawText ==
    "2018 Toyota Tacoma TRD Sport VIN: 1ABCD23EFGH456789 Clean title, runs great"

\* the four characters of the last year token of the text
LastYearToken(text) ==
    SubSeq(text, SetMax(MatchStarts(year_pattern, text)),
           SetMax(MatchStarts(year_pattern, text)) + 3)

\* C15: when the lot has no year and raw_text holds a four-digit year
\* token, _extract_from_raw_text sets year to that four-digit number (2018
\* for the text of the test), and it fills vin, make and model likewise
C15_ExtractsYear ==
    HasReturned("_extract_from_raw_text") =>
      /\ (~Truthy(args[1]["year"]) /\ MatchStarts(year_pattern, args[2]) # {})
            => returned.lot["year"] = PyInt(strToInt(LastYearToken(args[2])))
      /\ (args[1] = RawLot(<<>>) /\ args[2] = TestRawText)
            => /\ returned.lot["year"] = PyInt(2018)
               /\ returned.lot["vin"] = PyStr(TestVin)
               /\ returned.lot["make"] = PyStr("Toyota")
               /\ returned.lot["model"] = PyStr("Tacoma")

\* C16: _extract_from_raw_text only fills what is missing: of vin, year,
\* make and model, a value that is already there is left as it is, and no
\* other field of the lot is changed
C16_ExtractFillsOnlyMissing ==
    HasReturned("_extract_from_raw_text") =>
      \A f \in FieldNames :
         (f \notin ExtractedFields \/ Truthy(args[1][f]))
            => returned.lot[f] = args[1][f]

\* a lot with a vin and a model of its own, and a text that holds another
\* vin and model: the two are kept, year and make are filled from the text
C16_Witness ==
    /\ HasReturned("_extract_from_raw_text")
    /\ args[2] = TestRawText
    /\ args[1] = PartialLot({"vin", "model"})
    /\ returned.exc = ""
    /\ returned.lot["vin"] = OtherValues.vin
    /\ returned.lot["model"] = OtherValues.model
    /\ returned.lot["make"] = PyStr("Toyota")
    /\ returned.lot["year"] # PyNone

-----------------------------------------------------------------------------
(* _normalize_title_status and _normalize_odometer                         *)

\* the first of clean, rebuilt, salvage, parts_only whose pattern matches
\* the text, unknown when none does
FirstCategory(text) ==
    IF Search(title_patterns.clean, text) THEN "clean"
    ELSE IF Search(title_patterns.rebuilt, text) THEN "rebuilt"
    ELSE IF Search(title_patterns.salvage, text) THEN "salvage"
    ELSE IF Search(title_patterns.parts_only, text) THEN "parts_only"
    ELSE "unknown"

\* the cases of test_title_status_normalization
TitleStatusCases ==
    {<<"Clean title", "", "clean">>, <<"Salvage title", "", "salvage">>,
     <<"", "This car was totaled in accident", "salvage">>,
     <<"", "Rebuilt after damage", "rebuilt">>,
     <<"", "Parts only vehicle", "parts_only">>, <<"Unknown", "", "unknown">>}

\* C17: _normalize_title_status returns one of clean, rebuilt, salvage,
\* parts_only and unknown: the first category, in that order, whose pattern
\* matches title_status and raw_text joined by a space, and unknown when
\* no pattern matches
C17_TitleStatusFirstMatch ==
    HasReturned("_normalize_title_status") =>
      /\ returned \in {"clean", "rebuilt", "salvage", "parts_only", "unknown"}
      /\ returned = FirstCategory(lower(args[1].s \o " " \o args[2].s))
      /\ \A c \in TitleStatusCases :
            (args[1].s = c[1] /\ args[2].s = c[2]) => returned = c[3]

\* a salvage title_status with a text that says rebuilt: rebuilt comes
\* first in the order
C17_Witness ==
    /\ HasReturned("_normalize_title_status")
    /\ args = <<PyStr("Salvage title"), PyStr("Rebuilt after damage")>>
    /\ returned = "rebuilt"

\* C18: _normalize_odometer turns '85,000 miles' into 85000, returns an int
\* from 0 to 1,000,000 as it is, and returns None for a negative int, for
\* an int above 1,000,000 and for a string without a digit
C18_OdometerReading ==
    HasReturned("_normalize_odometer") =>
      /\ args[1] = PyStr("85,000 miles") => returned = PyInt(85000)
      /\ (args[1].t = "int" /\ OdometerInRange(args[1].n)) => returned = args[1]
      /\ (args[1].t = "int" /\ ~OdometerInRange(args[1].n)) => returned = PyNone
      /\ (args[1].t = "str" /\ CharsOf(args[1].s) \cap DigitChars = {})
            => returned = PyNone

-----------------------------------------------------------------------------
(* find_matches and get_best_match                                         *)

Categories == {categories[x] : x \in 1..Len(categories)}

\* the places of the returned list that hold a match of the category
MatchesOf(c) == {x \in 1..Len(returned) : returned[x].category = c}

\* a keyword of the category occurs literally in the lower-cased text
KeywordOccurs(c, text_lower) ==
    \E k \in 1..Len(patterns[c].keywords) :
       Contains(text_lower, patterns[c].keywords[k])

\* C19: find_matches returns exactly one TargetMatch for every category
\* whose regex matches the text and none for the other categories; each
\* match has the fixed score of its category, which is in (0, 1], and a
\* keyword list that is not empty: the category name alone when no listed
\* keyword occurs in the lower-cased text
C19_OneMatchPerCategory ==
    HasReturned("find_matches") =>
      /\ \A x \in 1..Len(returned) : returned[x].category \in Categories
      /\ \A c \in Categories :
            /\ Cardinality(MatchesOf(c)) =
                  IF Search(patterns[c].regex, lower(args[1])) THEN 1 ELSE 0
            /\ \A x \in MatchesOf(c) :
                  /\ returned[x].score = patterns[c].score
                  /\ 0 < returned[x].score /\ returned[x].score <= 100
                  /\ returned[x].keywords # <<>>
                  /\ ~KeywordOccurs(c, lower(args[1]))
                        => returned[x].keywords = <<c>>

\* a text that the land_cruiser regex matches and that holds none of the
\* listed keywords
C19_Witness ==
    /\ HasReturned("find_matches")
    /\ args = <<"LX 570">>
    /\ returned = <<[category |-> "land_cruiser", keywords |-> <<"land_cruiser">>,
                     score |-> 100]>>

\* the highest score of the matches that find_matches returns for the text
BestScore(text) ==
    SetMax({find_matches(text)[x].score : x \in 1..Len(find_matches(text))})

\* C20: get_best_match returns None exactly when find_matches returns no
\* match, and has_target_match is False then; otherwise it returns one of
\* the matches of find_matches, with the highest score among them; for a
\* text that names a Land Cruiser and a 4Runner it returns land_cruiser
C20_BestMatchIsMax ==
    /\ HasReturned("get_best_match") =>
         /\ returned = NoMatch <=> find_matches(args[1]) = <<>>
         /\ returned # NoMatch =>
               /\ \E x \in 1..Len(find_matches(args[1])) :
                     find_matches(args[1])[x] = returned
               /\ returned.score = BestScore(args[1])
         /\ args[1] = "2018 Toyota Land Cruiser vs 4Runner comparison"
               => returned.category = "land_cruiser"
    /\ HasReturned("has_target_match") =>
         (returned = FALSE <=> get_best_match(args[1]) = NoMatch)

\* the text of test_get_best_match, with two matches
C20_Witness ==
    /\ HasReturned("get_best_match")
    /\ args = <<"2018 Toyota Land Cruiser vs 4Runner comparison">>
    /\ Len(find_matches(args[1])) = 2
    /\ returned.category = "land_cruiser"

-----------------------------------------------------------------------------
(* The categories of find_matches on the texts of tests/test_keywords.py   *)

\* the returned list holds a match of the category
HasCategory(c) == \E x \in 1..Len(returned) : returned[x].category = c

\* text and expected category of test_truck_matches and
\* test_camper_rv_matches
ExpectedCategories ==
    {<<"2020 Toyota Tacoma TRD", "tacoma">>,
     <<"Toyota Tundra CrewMax", "tundra">>,
     <<"Nissan Frontier King Cab", "frontier">>,
     <<"2018 Nissan Titan XD", "titan">>,
     <<"2019 Winnebago Travato Class B", "campers_rvs">>,
     <<"Ford Transit Camper Conversion", "campers_rvs">>,
     <<"Mercedes Sprinter RV", "campers_rvs">>,
     <<"Travel Trailer 20ft", "campers_rvs">>,
     <<"Teardrop camper with tow hitch", "campers_rvs">>}

\* C21: for the texts of the truck and camper tests find_matches returns a
\* match with the category the test expects: tacoma, tundra, frontier,
\* titan, campers_rvs
C21_TestCategories ==
    HasReturned("find_matches") =>
      \A e \in ExpectedCategories : args[1] = e[1] => HasCategory(e[2])

\* texts that name a Land Cruiser without a make word, in the four forms
LandCruiserForms ==
    {"Land Cruiser for sale", "LANDCRUISER", "LC 200", "lc200 diesel",
     "Land-Cruiser", "2020 Land-Cruiser GXL"}

\* C22: find_matches returns a match of category land_cruiser for every
\* text that names a Land Cruiser as 'Land Cruiser', 'LANDCRUISER',
\* 'LC <digits>' or 'Land-Cruiser', without a make word in the text
C22_LandCruiserForms ==
    HasReturned("find_matches") =>
      (args[1] \in LandCruiserForms => HasCategory("land_cruiser"))

\* the texts of test_no_matches and test_has_target_match without a target
\* vehicle, and texts with a keyword inside a longer word
NonTargetTexts ==
    {"2020 Honda Civic EX", "Ford F-150 SuperCrew", "Chevrolet Silverado 1500",
     "BMW X5 xDrive35i", "Audi Q7 Premium Plus", "Honda Accord sedan",
     "Random text with no vehicles", "",
     "Chevrolet Silverado, stable idle", "Audi Q7, comfortable, no rust"}

\* C23: for texts that name only vehicles outside the targets, or no
\* vehicle, find_matches returns the empty list and has_target_match
\* returns False
C23_NoMatchForNonTargets ==
    /\ (HasReturned("find_matches") /\ args[1] \in NonTargetTexts)
          => returned = <<>>
    /\ (HasReturned("has_target_match") /\ args[1] \in NonTargetTexts)
          => returned = FALSE

\* find_matches has returned for a text with the letters of a keyword
\* inside a longer word
C23_Witness ==
    /\ HasReturned("find_matches")
    /\ args = <<"Chevrolet Silverado, stable idle">>
    /\ returned = <<>>

\* location_state, whatever its case, is one of TARGET_STATES
InTargetState(lot_data) ==
    \E x \in 1..Len(TARGET_STATES) :
       TARGET_STATES[x] = upper(Get(lot_data, "location_state", PyStr("")).s)

\* the vehicle types whose criteria lot_data satisfies
SatisfiedTypes(lot_data) ==
    {vehicle_type \in DOMAIN TARGET_VEHICLES :
       _check_vehicle_match(lot_data, target_search_text(lot_data), vehicle_type,
                            TARGET_VEHICLES[vehicle_type]).is_target}

C30_OtherStateReached ==
    /\ HasReturned("is_target_vehicle")
    /\ ~InTargetState(args[1])
    /\ SatisfiedTypes(args[1]) # {}
    /\ returned = NoTarget

-----------------------------------------------------------------------------
(* auction_radar/db_adapter.py and db.py: get_lots on a filled table       *)

MaxStored == 2

\* the characters of the stored texts, in the order of their codes
CodeOrder == " ,-.0123456789:" \o UPPER \o "_" \o LOWER

RECURSIVE TextLess(_, _)
\* a < b between two TEXT values (the comparison of their bytes)
TextLess(a, b) ==
    IF b = "" THEN FALSE
    ELSE IF a = "" THEN TRUE
    ELSE IF Head(a) = Head(b) THEN TextLess(Tail(a), Tail(b))
    ELSE IndexIn(Head(a), CodeOrder) < IndexIn(Head(b), CodeOrder)

\* utcnow() and utcnow() + timedelta(days=14) as strftime writes them, for a
\* clock before, at the start of, and after the day of the stored sale dates
QueryClocks ==
    { [start |-> "2024-03-10T08:00:00", end |-> "2024-03-24T08:00:00"],
      [start |-> "2024-03-15T00:00:00", end |-> "2024-03-29T00:00:00"],
      [start |-> "2024-03-16T00:00:00", end |-> "2024-03-30T00:00:00"] }

\* the arguments of get_lots, days_ahead left at its default, and the clock
QueryInputs ==
    [make : {PyNone, PyStr("toyota")},
     state : {PyNone, PyStr("CT")},
     title_status : {PyNone, PyStr("all"), PyStr("clean")},
     now : QueryClocks]

\* the value sale_date_utc is compared by: the text in the TEXT column of
\* SQLite, the time in the TIMESTAMP column of PostgreSQL
DateKey(row, postgres) ==
    LET text == row["sale_date_utc"].s
    IN IF postgres /\ \E d \in DOMAIN DateTexts : DateTexts[d].text = text
       THEN DateTexts[CHOOSE d \in DOMAIN DateTexts :
                        DateTexts[d].text = text].parsed
       ELSE text

\* sale_date_utc >= ? AND sale_date_utc <= ?
InWindow(row, postgres, now) ==
    /\ row["sale_date_utc"] # PyNone
    /\ ~TextLess(DateKey(row, postgres), now.start)
    /\ ~TextLess(now.end, DateKey(row, postgres))

\* the conditions get_lots appends for the filters that are given:
\* make LIKE '%make%' (without regard to case), location_state = ?,
\* title_status = ?
Filtered(row, q) ==
    /\ Truthy(q.make) =>
         /\ row["make"] # PyNone
         /\ Contains(lower(row["make"].s), lower(q.make.s))
    /\ Truthy(q.state) => row["location_state"] = q.state
    /\ (Truthy(q.title_status) /\ q.title_status # PyStr("all")) =>
         row["title_status"] = q.title_status

\* the WHERE clause as SQL reads it: AND binds before OR, so the appended
\* conditions join the IS NULL test and not the date window
WhereClause(row, postgres, q) ==
    \/ InWindow(row, postgres, q.now)
    \/ /\ row["sale_date_utc"] = PyNone
       /\ Filtered(row, q)

\* ORDER BY CASE WHEN sale_date_utc IS NULL THEN 1 ELSE 0 END, sale_date_utc
ComesBefore(a, b, postgres) ==
    /\ a["sale_date_utc"] # PyNone
    /\ \/ b["sale_date_utc"] = PyNone
       \/ TextLess(DateKey(a, postgres), DateKey(b, postgres))

\* the lists get_lots may return: the selected rows in the order of the
\* ORDER BY, rows of equal rank in either order
get_lots(rows, postgres, q) ==
    LET selected == {x \in 1..Len(rows) : WhereClause(rows[x], postgres, q)}
        n == Cardinality(selected)
        orders == {o \in [1..n -> selected] :
                     /\ \A i, j \in 1..n : o[i] = o[j] => i = j
                     /\ \A i, j \in 1..n :
                          i < j => ~ComesBefore(rows[o[j]], rows[o[i]], postgres)}
    IN {[i \in 1..n |-> rows[o[i]]] : o \in orders}

\* the records stored before a query: lots with a sale date on 15 March
\* 2024 and without one, of two makes, states and title statuses, a record
\* that moves the sale date of a stored lot, and a date that is no ISO text
QueryLots ==
    { Lot(PyStr("ny"), PyStr("1")) @@ ("make" :> PyStr("Nissan"))
        @@ ("location_state" :> PyStr("NY"))
        @@ ("title_status" :> PyStr("salvage"))
        @@ ("sale_date_utc" :> PyStr(DateTexts.iso.text)),
      Lot(PyStr("ct"), PyStr("1")) @@ ("make" :> PyStr("Toyota"))
        @@ ("location_state" :> PyStr("CT"))
        @@ ("title_status" :> PyStr("clean"))
        @@ ("sale_date_utc" :> PyStr(DateTexts.iso.text)),
      Lot(PyStr("ct"), PyStr("2")) @@ ("make" :> PyStr("TOYOTA"))
        @@ ("location_state" :> PyStr("CT"))
        @@ ("title_status" :> PyStr("clean")),
      Lot(PyStr("ny"), PyStr("2")) @@ ("make" :> PyStr("Nissan"))
        @@ ("location_state" :> PyStr("NY")),
      Lot(PyStr("ct"), PyStr("1"))
        @@ ("sale_date_utc" :> PyStr(DateTexts.day.text)),
      Lot(PyStr("ri"), PyStr("1")) @@ ("make" :> PyStr("Toyota"))
        @@ ("location_state" :> PyStr("RI"))
        @@ ("sale_date_utc" :> PyStr(DateTexts.us.text)) }

\* db.upsert_lot(lot_data) with one of the records above
StoreLot ==
    /\ clock <= MaxStored
    /\ \E lot_data \in QueryLots :
         LET done == upsert_lot(table, next_id, lot_data, use_postgres, clock)
         IN /\ table' = done.table
            /\ next_id' = done.next_id
            /\ upsert_arg' = lot_data
            /\ upsert_ret' = BoolStr(done.ret)
    /\ clock' = clock + 1
    /\ UNCHANGED <<use_postgres, norm_vars, rank_vars, call_vars, crawl_vars, fetch_vars>>

\* db.get_lots(make=..., state=..., title_status=...)
GetLots ==
    /\ \E q \in QueryInputs :
         \E result \in get_lots(table, use_postgres, q) :
            /\ callee' = "get_lots"
            /\ args' = <<q>>
            /\ has_returned' = TRUE
            /\ returned' = result
    /\ UNCHANGED <<norm_vars, rank_vars, db_vars, crawl_vars, fetch_vars>>

NextQuery ==
    \/ StoreLot
    \/ GetLots

SpecQuery == InitDb /\ [][NextQuery]_vars

\* C27: every lot that get_lots returns satisfies every filter that was
\* given; a lot whose sale date lies inside the window but whose make,
\* state or title status differs from the filter is not returned
C27_ReturnsOnlyFilteredLots ==
    HasReturned("get_lots") =>
      \A x \in 1..Len(returned) : Filtered(returned[x], args[1])

\* get_lots has returned a lot that a given filter excludes: its sale date
\* lies inside the window
C27_Witness ==
    /\ HasReturned("get_lots")
    /\ \E x \in 1..Len(returned) :
         /\ ~Filtered(returned[x], args[1])
         /\ InWindow(returned[x], use_postgres, args[1].now)

\* the filters do apply to the lots without a sale date
C27_FiltersApplyWithoutDate ==
    HasReturned("get_lots") =>
      \A x \in 1..Len(returned) :
         returned[x]["sale_date_utc"] = PyNone => Filtered(returned[x], args[1])

====
